---- MODULE Spec2Model ----
(***************************************************************************)
(* The light-spike light client: the verification predicates, the          *)
(* bisecting Verifier, the LightClient driver, the Requester and the       *)
(* Scheduler that routes events between them.                              *)
(***************************************************************************)
EXTENDS Integers, Sequences, FiniteSets, TLC

VARIABLES
    pending_states,     \* Verifier.pending_states : Height -> PendingState
    channel,            \* the events sent and not yet received, oldest first
    lastOut,            \* what the last handler call returned: Ok(..) or Err(..)
    caller_trusted,     \* the trusted state the caller holds
    pending_heights,    \* LightClient.pending_heights, front first
    lc_pending_states,  \* LightClient.pending_states : Height -> PendingState
    verified_states,    \* LightClient.verified_states
    trusted_store,      \* LightClient.trusted_store : Height -> TrustedState
    status,             \* Scheduler::run: "running", "terminated", "panicked"
    outgoing,           \* the next_event run() is about to send, or NoEvent
    requests,           \* history: the top-level requests sent so far
    fetches,            \* history: the heights of the StateNeeded emitted
    answers,            \* history: the FetchedState the requester returned
    rounds,             \* history: the number of VerificationNeeded emitted
    accepted,           \* history: <<T, TS>> for every StateVerified(TS)
    ops_input,          \* the arguments of a light-client operation
    ops_result,         \* what the operation returned for ops_input
    state               \* InnerVerifier.state

verifierVars == <<pending_states, channel, lastOut, caller_trusted>>

clientVars ==
    <<pending_heights, lc_pending_states, verified_states, trusted_store>>

schedulerVars ==
    <<status, outgoing, requests, fetches, answers, rounds, accepted>>

opsVars == <<ops_input, ops_result>>

innerVars == <<state>>

vars == <<verifierVars, clientVars, schedulerVars, opsVars, innerVars>>

(***************************************************************************)
(* Bounds of the model.                                                    *)
(***************************************************************************)
MaxHeight == 2
MaxExternal == 2
ChannelCap == 2

Heights == 0..MaxHeight
\* Hashes are opaque: the code only compares them.
Hashes == {1, 2}
\* SystemTime and Duration, in whole seconds.
BftTimes == {0, 1}
Nows == {1, 2}
Periods == {1, 2}

(***************************************************************************)
(* The data types of prelude.rs.  The header's validator_set_hash is read  *)
(* by no predicate and is left out.                                        *)
(***************************************************************************)
Headers ==
    [height : Heights, bft_time : BftTimes,
     next_validator_set_hash : {1}, hash : {1}]

ValidatorSets == [hash : Hashes]

Commits == [header_hash : Hashes]

SignedHeaders ==
    [header : Headers, commit : Commits,
     validators : ValidatorSets, validators_hash : Hashes]

TrustThresholds == {[numerator |-> 1, denominator |-> 3]}

\* The trusted states a caller hands in.
TrustedStates == [header : Headers, validators : ValidatorSets]

(***************************************************************************)
(* The capabilities of the Verifier: mocks in the style of the example's   *)
(* MockHeaderHasher, MockCommitValidator and MockVotingPowerCalculator,    *)
(* made to depend on their arguments so that every predicate can fail.     *)
(***************************************************************************)
OkVal(v) == [ok |-> TRUE, val |-> v]
ErrVal(e) == [ok |-> FALSE, val |-> e]

hash(header) == header.hash

validate(commit, validators) ==
    IF validators.hash = 1 THEN OkVal("unit") ELSE ErrVal("InvalidCommit")

voting_power_in(commit, validators) ==
    IF validators.hash = commit.header_hash THEN OkVal(31) ELSE OkVal(5)

total_power_of(validators) == OkVal(42)

(***************************************************************************)
(* The pred combinators (from_fn / named / to_assert / not / and, with     *)
(* eval and assert).  A predicate is the left-to-right list of its leaves; *)
(* a leaf carries its name, the value of its closure, the error to_assert  *)
(* maps a failure to, and the number of voting power calculator calls the  *)
(* closure makes when it is run.                                           *)
(***************************************************************************)
Leaf(name, holds, err, calls) ==
    <<[name |-> name, holds |-> holds, err |-> err, calls |-> calls]>>

pred_and(p, q) == p \o q

pred_eval(p) == \A i \in 1..Len(p) : p[i].holds

FirstFailure(p) ==
    IF pred_eval(p) THEN 0
    ELSE CHOOSE i \in 1..Len(p) :
            /\ ~p[i].holds
            /\ \A j \in 1..(i - 1) : p[j].holds

RECURSIVE SumCalls(_, _)
SumCalls(p, n) == IF n = 0 THEN 0 ELSE p[n].calls + SumCalls(p, n - 1)

\* assert(): Ok(()) or the error of the first failing leaf; calls counts the
\* calculator calls of the leaves that were run.
pred_assert(p) ==
    LET i == FirstFailure(p) IN
    IF i = 0
    THEN [ok |-> TRUE, err |-> "none", at |-> 0, calls |-> SumCalls(p, Len(p))]
    ELSE [ok |-> FALSE, err |-> p[i].err, at |-> i, calls |-> SumCalls(p, i)]

(***************************************************************************)
(* The predicates of pred/src/light_client.rs.                             *)
(***************************************************************************)
_validator_sets_match(signed_header, validators) ==
    signed_header.validators_hash = validators.hash

validator_sets_match(signed_header, validators) ==
    Leaf("validator_sets_match",
         _validator_sets_match(signed_header, validators),
         "InvalidValidatorSet", 0)

_next_validators_match(signed_header, validators) ==
    signed_header.validators_hash = validators.hash

next_validators_match(signed_header, validators) ==
    Leaf("next_validators_match",
         _next_validators_match(signed_header, validators),
         "InvalidNextValidatorSet", 0)

_header_matches_commit(header, commit) ==
    hash(header) = commit.header_hash

header_matches_commit(header, commit) ==
    Leaf("header_matches_commit",
         _header_matches_commit(header, commit),
         "InvalidCommitValue", 0)

_valid_commit(commit, validators) ==
    validate(commit, validators).ok

valid_commit(commit, validators) ==
    Leaf("valid_commit",
         _valid_commit(commit, validators),
         "ImplementationSpecific", 0)

\* A variant that also accepts a header whose time equals now; C6 rejects it.
_is_within_trust_period_AtNow(header, trusting_period, now) ==
    LET header_time == header.bft_time
        expires_at == header_time + trusting_period
    IN  header_time <= now /\ expires_at > now

_is_within_trust_period(header, trusting_period, now) ==
    LET header_time == header.bft_time
        expires_at == header_time + trusting_period
    IN  header_time < now /\ expires_at > now

is_within_trust_period(header, trusting_period, now) ==
    Leaf("is_within_trust_period",
         _is_within_trust_period(header, trusting_period, now),
         "NotWithinTrustPeriod", 0)

_is_monotonic_bft_time(header_a, header_b) ==
    header_b.bft_time >= header_a.bft_time

is_monotonic_bft_time(header_a, header_b) ==
    Leaf("is_monotonic_bft_time",
         _is_monotonic_bft_time(header_a, header_b),
         "NonMonotonicBftTime", 0)

_is_monotonic_height(header_a, header_b) ==
    header_a.height > header_b.height

is_monotonic_height(header_a, header_b) ==
    Leaf("is_monotonic_height",
         _is_monotonic_height(header_a, header_b),
         "NonIncreasingHeight", 0)

_has_sufficient_voting_power(commit, validators, trust_threshold) ==
    LET total_power == total_power_of(validators)
        voting_power == voting_power_in(commit, validators)
    IN  IF total_power.ok /\ voting_power.ok
        THEN voting_power.val * trust_threshold.denominator
                > total_power.val * trust_threshold.numerator
        ELSE FALSE

_has_sufficient_validators_overlap(untrusted_commit, trusted_validators, trust_threshold) ==
    _has_sufficient_voting_power(untrusted_commit, trusted_validators,
                                 trust_threshold)

has_sufficient_validators_overlap(untrusted_commit, trusted_validators, trust_threshold) ==
    Leaf("has_sufficient_validators_overlap",
         _has_sufficient_validators_overlap(untrusted_commit,
                                            trusted_validators,
                                            trust_threshold),
         "InsufficientValidatorsOverlap", 2)

_has_sufficient_signers_overlap(untrusted_commit, untrusted_validators, trust_threshold) ==
    _has_sufficient_voting_power(untrusted_commit, untrusted_validators,
                                 trust_threshold)

has_sufficient_signers_overlap(untrusted_commit, untrusted_validators, trust_threshold) ==
    Leaf("has_sufficient_signers_overlap",
         _has_sufficient_signers_overlap(untrusted_commit,
                                         untrusted_validators,
                                         trust_threshold),
         "InvalidCommit", 2)

_invalid_next_validator_set(trusted_state, untrusted_sh, untrusted_next_vals) ==
    /\ untrusted_sh.header.height = trusted_state.header.height
    /\ trusted_state.validators.hash # untrusted_next_vals.hash

valid_next_validator_set(trusted_state, untrusted_sh, untrusted_next_vals) ==
    Leaf("valid_next_validator_set",
         ~_invalid_next_validator_set(trusted_state, untrusted_sh,
                                      untrusted_next_vals),
         "InvalidNextValidatorSet", 0)

\* A variant that checks the validators overlap first; C8 rejects it.
verify_pred_OverlapFirst(p_vsm, p_nvm, p_hmc, p_vc, p_bft, p_height, p_vnvs, p_overlap, p_signers) ==
    pred_and(pred_and(pred_and(pred_and(pred_and(pred_and(pred_and(pred_and(
        p_overlap, p_vsm), p_nvm), p_hmc), p_vc), p_bft), p_height), p_vnvs),
        p_signers)

verify_pred(p_vsm, p_nvm, p_hmc, p_vc, p_bft, p_height, p_vnvs, p_overlap, p_signers) ==
    pred_and(pred_and(pred_and(pred_and(pred_and(pred_and(pred_and(pred_and(
        p_vsm,
        p_nvm),
        p_hmc),
        p_vc),
        p_bft),
        p_height),
        p_vnvs),
        p_overlap),
        p_signers)

(***************************************************************************)
(* Results and maps.                                                       *)
(***************************************************************************)
Ok(v) == [ok |-> TRUE, val |-> v]
Err(e) == [ok |-> FALSE, val |-> e]

EmptyMap == [k \in {} |-> 0]

MapInsert(m, k, v) == [x \in DOMAIN m \cup {k} |-> IF x = k THEN v ELSE m[x]]

MapRemove(m, k) == [x \in DOMAIN m \ {k} |-> m[x]]

NoEvent == [tag |-> "None"]

(***************************************************************************)
(* Verifier (light-spike/src/verifier.rs).  Each operation returns the new *)
(* pending_states map and the handler's result.                            *)
(***************************************************************************)
build_verify_predicate(trusted_state, untrusted_sh, untrusted_vals, untrusted_next_vals, trust_threshold, trusting_period, now) ==
    verify_pred(
        validator_sets_match(untrusted_sh, untrusted_vals),
        next_validators_match(untrusted_sh, untrusted_next_vals),
        header_matches_commit(untrusted_sh.header, untrusted_sh.commit),
        valid_commit(untrusted_sh.commit, untrusted_sh.validators),
        is_monotonic_bft_time(untrusted_sh.header, trusted_state.header),
        is_monotonic_height(trusted_state.header, untrusted_sh.header),
        valid_next_validator_set(trusted_state, untrusted_sh, untrusted_next_vals),
        has_sufficient_validators_overlap(untrusted_sh.commit, trusted_state.validators, trust_threshold),
        has_sufficient_signers_overlap(untrusted_sh.commit, untrusted_vals, trust_threshold))

verify_untrusted_state(trusted_state, untrusted_sh, untrusted_vals, untrusted_next_vals, trust_threshold, trusting_period, now) ==
    pred_assert(build_verify_predicate(trusted_state, untrusted_sh, untrusted_vals, untrusted_next_vals, trust_threshold, trusting_period, now))

compute_pivot_height(trusted_state, untrusted_sh) ==
    (trusted_state.header.height + untrusted_sh.header.height) \div 2

\* A variant that asks for bisection when the validators overlap is
\* insufficient; C13 rejects it.
perform_verification_BisectsOnOverlap(trusted_state, untrusted_sh, untrusted_vals, untrusted_next_vals, trust_threshold, trusting_period, now) ==
    LET result == verify_untrusted_state(trusted_state, untrusted_sh,
                      untrusted_vals, untrusted_next_vals, trust_threshold,
                      trusting_period, now)
    IN  IF result.ok
        THEN Ok([tag |-> "StateVerified",
                 trusted_state |-> [header |-> untrusted_sh.header,
                                    validators |-> untrusted_vals]])
        ELSE IF result.err = "InsufficientValidatorsOverlap"
        THEN Ok([tag |-> "VerificationNeeded",
                 trusted_state |-> trusted_state,
                 pivot_height |->
                     compute_pivot_height(trusted_state, untrusted_sh),
                 trust_threshold |-> trust_threshold,
                 trusting_period |-> trusting_period,
                 now |-> now])
        ELSE Err([tag |-> "VerificationFailed", error |-> result.err])

\* A variant that asks for bisection on every failed check; C11 rejects it.
perform_verification_BisectsOnAnyFailure(trusted_state, untrusted_sh, untrusted_vals, untrusted_next_vals, trust_threshold, trusting_period, now) ==
    LET result == verify_untrusted_state(trusted_state, untrusted_sh,
                      untrusted_vals, untrusted_next_vals, trust_threshold,
                      trusting_period, now)
    IN  IF result.ok
        THEN Ok([tag |-> "StateVerified",
                 trusted_state |-> [header |-> untrusted_sh.header,
                                    validators |-> untrusted_vals]])
        ELSE Ok([tag |-> "VerificationNeeded",
                 trusted_state |-> trusted_state,
                 pivot_height |->
                     compute_pivot_height(trusted_state, untrusted_sh),
                 trust_threshold |-> trust_threshold,
                 trusting_period |-> trusting_period,
                 now |-> now])

\* A variant that promotes the trusted header with the fetched validators;
\* C26 rejects it.
perform_verification_PromotesTrustedHeader(trusted_state, untrusted_sh, untrusted_vals, untrusted_next_vals, trust_threshold, trusting_period, now) ==
    LET result == verify_untrusted_state(trusted_state, untrusted_sh, untrusted_vals, untrusted_next_vals, trust_threshold, trusting_period, now)
    IN  IF result.ok
        THEN Ok([tag |-> "StateVerified",
                 trusted_state |-> [header |-> trusted_state.header,
                                    validators |-> untrusted_vals]])
        ELSE IF result.err = "InsufficientVotingPower"
        THEN Ok([tag |-> "VerificationNeeded",
                 trusted_state |-> trusted_state,
                 pivot_height |-> compute_pivot_height(trusted_state, untrusted_sh),
                 trust_threshold |-> trust_threshold,
                 trusting_period |-> trusting_period,
                 now |-> now])
        ELSE Err([tag |-> "VerificationFailed", error |-> result.err])

perform_verification(trusted_state, untrusted_sh, untrusted_vals, untrusted_next_vals, trust_threshold, trusting_period, now) ==
    LET result == verify_untrusted_state(trusted_state, untrusted_sh, untrusted_vals, untrusted_next_vals, trust_threshold, trusting_period, now)
    IN  IF result.ok
        THEN Ok([tag |-> "StateVerified",
                 trusted_state |-> [header |-> untrusted_sh.header,
                                    validators |-> untrusted_vals]])
        ELSE IF result.err = "InsufficientVotingPower"
        THEN Ok([tag |-> "VerificationNeeded",
                 trusted_state |-> trusted_state,
                 pivot_height |-> compute_pivot_height(trusted_state, untrusted_sh),
                 trust_threshold |-> trust_threshold,
                 trusting_period |-> trusting_period,
                 now |-> now])
        ELSE Err([tag |-> "VerificationFailed", error |-> result.err])

start_verification(ps, trusted_state, untrusted_height, trust_threshold, trusting_period, now) ==
    [pending_states |->
        MapInsert(ps, untrusted_height,
                  [trusted_state |-> trusted_state,
                   untrusted_height |-> untrusted_height,
                   trust_threshold |-> trust_threshold,
                   trusting_period |-> trusting_period,
                   now |-> now]),
     res |-> Ok([tag |-> "StateNeeded", height |-> untrusted_height])]

on_verify_at_height(ps, trusted_state, untrusted_height, trust_threshold, trusting_period, now) ==
    LET within_trust_period ==
            pred_eval(is_within_trust_period(trusted_state.header, trusting_period, now))
    IN  IF ~within_trust_period
        THEN [pending_states |-> ps,
              res |-> Err([tag |-> "NotWithinTrustingPeriod",
                           header |-> trusted_state.header,
                           trusting_period |-> trusting_period,
                           now |-> now])]
        ELSE start_verification(ps, trusted_state, untrusted_height, trust_threshold, trusting_period, now)

\* A variant that drops every pending state on a miss; C9 rejects it.
on_fetched_state_ClearsOnMiss(ps, height, untrusted_sh, untrusted_vals, untrusted_next_vals) ==
    IF height \notin DOMAIN ps
    THEN [pending_states |-> EmptyMap,
          res |-> Err([tag |-> "NoMatchingPendingState", height |-> height])]
    ELSE [pending_states |-> MapRemove(ps, height),
          res |-> perform_verification(ps[height].trusted_state, untrusted_sh,
                     untrusted_vals, untrusted_next_vals,
                     ps[height].trust_threshold, ps[height].trusting_period,
                     ps[height].now)]

\* A variant that reads the pending state without removing it; C10 rejects
\* it.
on_fetched_state_KeepsEntry(ps, height, untrusted_sh, untrusted_vals, untrusted_next_vals) ==
    IF height \notin DOMAIN ps
    THEN [pending_states |-> ps,
          res |-> Err([tag |-> "NoMatchingPendingState", height |-> height])]
    ELSE [pending_states |-> ps,
          res |-> perform_verification(ps[height].trusted_state, untrusted_sh,
                     untrusted_vals, untrusted_next_vals,
                     ps[height].trust_threshold, ps[height].trusting_period,
                     ps[height].now)]

on_fetched_state(ps, height, untrusted_sh, untrusted_vals, untrusted_next_vals) ==
    IF height \notin DOMAIN ps
    THEN [pending_states |-> ps,
          res |-> Err([tag |-> "NoMatchingPendingState", height |-> height])]
    ELSE LET pending_state == ps[height]
         IN  [pending_states |-> MapRemove(ps, height),
              res |-> perform_verification(pending_state.trusted_state,
                                           untrusted_sh, untrusted_vals,
                                           untrusted_next_vals,
                                           pending_state.trust_threshold,
                                           pending_state.trusting_period,
                                           pending_state.now)]

Verifier_handle(ps, event) ==
    IF event.tag = "VerifyAtHeight"
    THEN on_verify_at_height(ps, event.trusted_state, event.untrusted_height,
                             event.trust_threshold, event.trusting_period,
                             event.now)
    ELSE on_fetched_state(ps, event.height, event.untrusted_sh,
                          event.untrusted_vals, event.untrusted_next_vals)

(***************************************************************************)
(* The events a caller can hand to the Verifier.                           *)
(***************************************************************************)
VerifyAtHeightEvents(T) ==
    [tag : {"VerifyAtHeight"}, trusted_state : {T},
     untrusted_height : Heights, trust_threshold : TrustThresholds,
     trusting_period : Periods, now : Nows]

FetchedStateEvents ==
    [tag : {"FetchedState"}, height : Heights, untrusted_sh : SignedHeaders,
     untrusted_vals : ValidatorSets, untrusted_next_vals : ValidatorSets]

(***************************************************************************)
(* SpecVerifier: the Verifier on its own.  A caller holding the trusted    *)
(* state caller_trusted hands it any sequence of events, one at a time:    *)
(* channel holds the event that has been sent and not yet handled.         *)
(***************************************************************************)
\* No operation has been called: the pipeline below runs with mocked
\* capabilities and never calls the operations of src/tendermint and
\* src/light-client.
NoOperation == [op |-> "none"]

\* InnerVerifierState (light-spike/src/inner_verifier.rs).
Ready == [tag |-> "Ready"]
Unknown == [tag |-> "Unknown"]

WaitingForUntrustedState(trusted_state, untrusted_height, trust_threshold, trusting_period, now) ==
    [tag |-> "WaitingForUntrustedState", trusted_state |-> trusted_state,
     untrusted_height |-> untrusted_height,
     trust_threshold |-> trust_threshold,
     trusting_period |-> trusting_period, now |-> now]

InitComponents ==
    /\ pending_states = EmptyMap
    /\ channel = <<>>
    /\ lastOut = Ok(NoEvent)
    /\ pending_heights = <<>>
    /\ lc_pending_states = EmptyMap
    /\ verified_states = <<>>
    /\ trusted_store = EmptyMap
    /\ status = "running"
    /\ outgoing = NoEvent
    /\ requests = <<>>
    /\ fetches = <<>>
    /\ answers = <<>>
    /\ rounds = 0
    /\ accepted = {}
    /\ state = Ready

InitVerifier ==
    /\ caller_trusted \in TrustedStates
    /\ InitComponents
    /\ ops_input = NoOperation
    /\ ops_result = NoOperation

SendVerifyAtHeight ==
    /\ channel = <<>>
    /\ \E e \in VerifyAtHeightEvents(caller_trusted) : channel' = <<e>>
    /\ lastOut' = Ok(NoEvent)
    /\ UNCHANGED <<caller_trusted, pending_states, clientVars, schedulerVars>>
    /\ UNCHANGED <<opsVars, innerVars>>

SendFetchedState ==
    /\ channel = <<>>
    /\ \E e \in FetchedStateEvents : channel' = <<e>>
    /\ lastOut' = Ok(NoEvent)
    /\ UNCHANGED <<caller_trusted, pending_states, clientVars, schedulerVars>>
    /\ UNCHANGED <<opsVars, innerVars>>

VerifierHandle ==
    /\ channel # <<>>
    /\ LET r == Verifier_handle(pending_states, Head(channel)) IN
        /\ pending_states' = r.pending_states
        /\ lastOut' = r.res
    /\ channel' = Tail(channel)
    /\ UNCHANGED <<caller_trusted, clientVars, schedulerVars>>
    /\ UNCHANGED <<opsVars, innerVars>>

NextVerifier == SendVerifyAtHeight \/ SendFetchedState \/ VerifierHandle

SpecVerifier == InitVerifier /\ [][NextVerifier]_vars

(***************************************************************************)
(* LightClient (light-spike/src/light_client.rs).  The client state is the *)
(* record [pending_heights, pending_states, verified_states,               *)
(* trusted_store]; handle returns the new state and the result.            *)
(***************************************************************************)
LightClient_reset(lc) ==
    [lc EXCEPT !.pending_heights = <<>>, !.pending_states = EmptyMap]

\* A variant that pushes the height twice; C12 rejects it.
LightClient_on_verify_at_height_PushesTwice(lc, event) ==
    LET pending_state == [trusted_state |-> event.trusted_state,
                          untrusted_height |-> event.untrusted_height,
                          trust_threshold |-> event.trust_threshold,
                          trusting_period |-> event.trusting_period,
                          now |-> event.now]
    IN  [lc |-> [lc EXCEPT
                    !.pending_heights =
                        <<event.untrusted_height, event.untrusted_height>>
                            \o @,
                    !.pending_states =
                        MapInsert(@, event.untrusted_height, pending_state)],
         res |-> Ok([tag |-> "PerformVerification",
                     trusted_state |-> event.trusted_state,
                     untrusted_height |-> event.untrusted_height,
                     trust_threshold |-> event.trust_threshold,
                     trusting_period |-> event.trusting_period,
                     now |-> event.now])]

LightClient_on_verify_at_height(lc, event) ==
    LET pending_state == [trusted_state |-> event.trusted_state,
                          untrusted_height |-> event.untrusted_height,
                          trust_threshold |-> event.trust_threshold,
                          trusting_period |-> event.trusting_period,
                          now |-> event.now]
    IN  [lc |-> [lc EXCEPT
                    !.pending_heights = <<event.untrusted_height>> \o @,
                    !.pending_states =
                        MapInsert(@, event.untrusted_height, pending_state)],
         res |-> Ok([tag |-> "PerformVerification",
                     trusted_state |-> event.trusted_state,
                     untrusted_height |-> event.untrusted_height,
                     trust_threshold |-> event.trust_threshold,
                     trusting_period |-> event.trusting_period,
                     now |-> event.now])]

\* A variant that hands out verified_states without emptying it; C15 rejects it.
LightClient_on_new_trusted_state_KeepsVerified(lc, new_trusted_state) ==
    LET new_height == new_trusted_state.header.height IN
    IF lc.pending_heights = <<>>
    THEN [lc |-> lc,
          res |-> Ok([tag |-> "AlreadyVerified", height |-> new_height])]
    ELSE
    LET latest_height_to_verify == Head(lc.pending_heights)
        popped == [lc EXCEPT !.pending_heights = Tail(@)]
    IN  IF latest_height_to_verify # new_height
        THEN [lc |-> popped,
              res |-> Err([tag |-> "NextHeightMismatch",
                           expected |-> latest_height_to_verify,
                           got |-> new_height])]
        ELSE IF latest_height_to_verify \notin DOMAIN lc.pending_states
        THEN [lc |-> popped,
              res |-> Err([tag |-> "NoMatchingPendingState",
                           height |-> latest_height_to_verify])]
        ELSE
        LET pending_state == lc.pending_states[latest_height_to_verify]
            stored == [popped EXCEPT
                        !.pending_states = MapRemove(@, latest_height_to_verify),
                        !.trusted_store =
                            MapInsert(@, new_height, new_trusted_state),
                        !.verified_states = Append(@, new_trusted_state)]
        IN  IF stored.pending_heights # <<>>
            THEN [lc |-> stored,
                  res |-> Ok([tag |-> "PerformVerification",
                              trusted_state |-> new_trusted_state,
                              untrusted_height |-> Head(stored.pending_heights),
                              trust_threshold |-> pending_state.trust_threshold,
                              trusting_period |-> pending_state.trusting_period,
                              now |-> pending_state.now])]
            ELSE [lc |-> LightClient_reset(stored),
                  res |-> Ok([tag |-> "NewTrustedStates",
                              trusted_height |-> latest_height_to_verify,
                              trusted_states |-> stored.verified_states])]

\* A variant that collects the verified states newest first; C28 rejects it.
LightClient_on_new_trusted_state_NewestFirst(lc, new_trusted_state) ==
    LET new_height == new_trusted_state.header.height IN
    IF lc.pending_heights = <<>>
    THEN [lc |-> lc,
          res |-> Ok([tag |-> "AlreadyVerified", height |-> new_height])]
    ELSE
    LET latest_height_to_verify == Head(lc.pending_heights)
        popped == [lc EXCEPT !.pending_heights = Tail(@)]
    IN  IF latest_height_to_verify # new_height
        THEN [lc |-> popped,
              res |-> Err([tag |-> "NextHeightMismatch",
                           expected |-> latest_height_to_verify,
                           got |-> new_height])]
        ELSE IF latest_height_to_verify \notin DOMAIN lc.pending_states
        THEN [lc |-> popped,
              res |-> Err([tag |-> "NoMatchingPendingState",
                           height |-> latest_height_to_verify])]
        ELSE
        LET pending_state == lc.pending_states[latest_height_to_verify]
            stored == [popped EXCEPT
                        !.pending_states = MapRemove(@, latest_height_to_verify),
                        !.trusted_store =
                            MapInsert(@, new_height, new_trusted_state),
                        !.verified_states = <<new_trusted_state>> \o @]
        IN  IF stored.pending_heights # <<>>
            THEN [lc |-> stored,
                  res |-> Ok([tag |-> "PerformVerification",
                              trusted_state |-> new_trusted_state,
                              untrusted_height |-> Head(stored.pending_heights),
                              trust_threshold |-> pending_state.trust_threshold,
                              trusting_period |-> pending_state.trusting_period,
                              now |-> pending_state.now])]
            ELSE [lc |-> LightClient_reset(
                            [stored EXCEPT !.verified_states = <<>>]),
                  res |-> Ok([tag |-> "NewTrustedStates",
                              trusted_height |-> latest_height_to_verify,
                              trusted_states |-> stored.verified_states])]

\* A variant that reports the two heights of a mismatch the wrong way round;
\* C29 rejects it.
LightClient_on_new_trusted_state_SwapsExpectedAndGot(lc, new_trusted_state) ==
    LET new_height == new_trusted_state.header.height IN
    IF lc.pending_heights = <<>>
    THEN [lc |-> lc,
          res |-> Ok([tag |-> "AlreadyVerified", height |-> new_height])]
    ELSE
    LET latest_height_to_verify == Head(lc.pending_heights)
        popped == [lc EXCEPT !.pending_heights = Tail(@)]
    IN  IF latest_height_to_verify # new_height
        THEN [lc |-> popped,
              res |-> Err([tag |-> "NextHeightMismatch",
                           expected |-> new_height,
                           got |-> latest_height_to_verify])]
        ELSE IF latest_height_to_verify \notin DOMAIN lc.pending_states
        THEN [lc |-> popped,
              res |-> Err([tag |-> "NoMatchingPendingState",
                           height |-> latest_height_to_verify])]
        ELSE
        LET pending_state == lc.pending_states[latest_height_to_verify]
            stored == [popped EXCEPT
                        !.pending_states = MapRemove(@, latest_height_to_verify),
                        !.trusted_store =
                            MapInsert(@, new_height, new_trusted_state),
                        !.verified_states = Append(@, new_trusted_state)]
        IN  IF stored.pending_heights # <<>>
            THEN [lc |-> stored,
                  res |-> Ok([tag |-> "PerformVerification",
                              trusted_state |-> new_trusted_state,
                              untrusted_height |-> Head(stored.pending_heights),
                              trust_threshold |-> pending_state.trust_threshold,
                              trusting_period |-> pending_state.trusting_period,
                              now |-> pending_state.now])]
            ELSE [lc |-> LightClient_reset(
                            [stored EXCEPT !.verified_states = <<>>]),
                  res |-> Ok([tag |-> "NewTrustedStates",
                              trusted_height |-> latest_height_to_verify,
                              trusted_states |-> stored.verified_states])]

\* A variant that collects the new trusted state without writing it to the
\* trusted store; C30 rejects it.
LightClient_on_new_trusted_state_SkipsStore(lc, new_trusted_state) ==
    LET new_height == new_trusted_state.header.height IN
    IF lc.pending_heights = <<>>
    THEN [lc |-> lc,
          res |-> Ok([tag |-> "AlreadyVerified", height |-> new_height])]
    ELSE
    LET latest_height_to_verify == Head(lc.pending_heights)
        popped == [lc EXCEPT !.pending_heights = Tail(@)]
    IN  IF latest_height_to_verify # new_height
        THEN [lc |-> popped,
              res |-> Err([tag |-> "NextHeightMismatch",
                           expected |-> latest_height_to_verify,
                           got |-> new_height])]
        ELSE IF latest_height_to_verify \notin DOMAIN lc.pending_states
        THEN [lc |-> popped,
              res |-> Err([tag |-> "NoMatchingPendingState",
                           height |-> latest_height_to_verify])]
        ELSE
        LET pending_state == lc.pending_states[latest_height_to_verify]
            stored == [popped EXCEPT
                        !.pending_states = MapRemove(@, latest_height_to_verify),
                        !.verified_states = Append(@, new_trusted_state)]
        IN  IF stored.pending_heights # <<>>
            THEN [lc |-> stored,
                  res |-> Ok([tag |-> "PerformVerification",
                              trusted_state |-> new_trusted_state,
                              untrusted_height |-> Head(stored.pending_heights),
                              trust_threshold |-> pending_state.trust_threshold,
                              trusting_period |-> pending_state.trusting_period,
                              now |-> pending_state.now])]
            ELSE [lc |-> LightClient_reset(
                            [stored EXCEPT !.verified_states = <<>>]),
                  res |-> Ok([tag |-> "NewTrustedStates",
                              trusted_height |-> latest_height_to_verify,
                              trusted_states |-> stored.verified_states])]

LightClient_on_new_trusted_state(lc, new_trusted_state) ==
    LET new_height == new_trusted_state.header.height IN
    IF lc.pending_heights = <<>>
    THEN [lc |-> lc,
          res |-> Ok([tag |-> "AlreadyVerified", height |-> new_height])]
    ELSE
    LET latest_height_to_verify == Head(lc.pending_heights)
        popped == [lc EXCEPT !.pending_heights = Tail(@)]
    IN  IF latest_height_to_verify # new_height
        THEN [lc |-> popped,
              res |-> Err([tag |-> "NextHeightMismatch",
                           expected |-> latest_height_to_verify,
                           got |-> new_height])]
        ELSE IF latest_height_to_verify \notin DOMAIN lc.pending_states
        THEN [lc |-> popped,
              res |-> Err([tag |-> "NoMatchingPendingState",
                           height |-> latest_height_to_verify])]
        ELSE
        LET pending_state == lc.pending_states[latest_height_to_verify]
            stored == [popped EXCEPT
                        !.pending_states = MapRemove(@, latest_height_to_verify),
                        !.trusted_store =
                            MapInsert(@, new_height, new_trusted_state),
                        !.verified_states = Append(@, new_trusted_state)]
        IN  IF stored.pending_heights # <<>>
            THEN [lc |-> stored,
                  res |-> Ok([tag |-> "PerformVerification",
                              trusted_state |-> new_trusted_state,
                              untrusted_height |-> Head(stored.pending_heights),
                              trust_threshold |-> pending_state.trust_threshold,
                              trusting_period |-> pending_state.trusting_period,
                              now |-> pending_state.now])]
            ELSE [lc |-> LightClient_reset(
                            [stored EXCEPT !.verified_states = <<>>]),
                  res |-> Ok([tag |-> "NewTrustedStates",
                              trusted_height |-> latest_height_to_verify,
                              trusted_states |-> stored.verified_states])]

LightClient_handle(lc, event) ==
    IF event.tag = "VerifyAtHeight"
    THEN LightClient_on_verify_at_height(lc, event)
    ELSE LightClient_on_new_trusted_state(lc, event.trusted_state)

(***************************************************************************)
(* Requester (light-spike/src/requester.rs).  The full node is not         *)
(* trusted: for FetchState(h) it answers with any signed header and        *)
(* validator sets, or the RPC fails.  To keep the runs small the node's    *)
(* answers are drawn from those with bft_time 0 whose commit and embedded  *)
(* validator set are consistent with the header and V; the Verifier alone  *)
(* is checked against every fetched state in SpecVerifier.                 *)
(***************************************************************************)
NodeAnswers ==
    {a \in [signed_header : SignedHeaders, validator_set : ValidatorSets,
            next_validator_set : ValidatorSets] :
        /\ a.signed_header.commit.header_hash = a.signed_header.header.hash
        /\ a.signed_header.validators = a.validator_set
        /\ a.signed_header.validators_hash = a.validator_set.hash
        /\ a.signed_header.header.bft_time = 0}

RpcFailure == [rpc_error |-> TRUE]

Requester_handle(height, answer) ==
    IF answer = RpcFailure
    THEN Err([tag |-> "RpcError"])
    ELSE Ok([tag |-> "FetchedState", height |-> height,
             signed_header |-> answer.signed_header,
             validator_set |-> answer.validator_set,
             next_validator_set |-> answer.next_validator_set])

(***************************************************************************)
(* Scheduler (light-spike/src/scheduler.rs).  route_event maps a           *)
(* component's output to the next input; the arms that are todo!() panic.  *)
(***************************************************************************)
Todo == [tag |-> "Todo"]

route_event(out) ==
    CASE out.tag = "NewTrustedStates" -> Todo
      [] out.tag = "PerformVerification" ->
            [to |-> "Verifier", tag |-> "VerifyAtHeight",
             trusted_state |-> out.trusted_state,
             untrusted_height |-> out.untrusted_height,
             trust_threshold |-> out.trust_threshold,
             trusting_period |-> out.trusting_period,
             now |-> out.now]
      [] out.tag = "StateNeeded" ->
            [to |-> "Requester", tag |-> "FetchState", height |-> out.height]
      [] out.tag = "StateVerified" ->
            [to |-> "LightClient", tag |-> "NewTrustedState",
             trusted_state |-> out.trusted_state]
      [] out.tag = "VerificationNeeded" ->
            [to |-> "LightClient", tag |-> "VerifyAtHeight",
             trusted_state |-> out.trusted_state,
             untrusted_height |-> out.pivot_height,
             trust_threshold |-> out.trust_threshold,
             trusting_period |-> out.trusting_period,
             now |-> out.now]
      [] out.tag = "FetchedState" ->
            [to |-> "Verifier", tag |-> "FetchedState",
             height |-> out.height,
             untrusted_sh |-> out.signed_header,
             untrusted_vals |-> out.validator_set,
             untrusted_next_vals |-> out.next_validator_set]
      [] OTHER -> Todo

\* Scheduler::handle on the result of a component: an Err is todo!(), an Ok
\* is routed; run() then holds the routed event until it can send it.
Scheduler_route(res) ==
    /\ lastOut' = res
    /\ IF res.ok /\ route_event(res.val) # Todo
       THEN /\ outgoing' = route_event(res.val)
            /\ status' = status
       ELSE /\ outgoing' = NoEvent
            /\ status' = "panicked"

Receives(to) ==
    /\ status = "running"
    /\ outgoing = NoEvent
    /\ channel # <<>>
    /\ Head(channel).to = to
    /\ channel' = Tail(channel)

LightClientStep ==
    /\ Receives("LightClient")
    /\ LET lc == [pending_heights |-> pending_heights,
                  pending_states |-> lc_pending_states,
                  verified_states |-> verified_states,
                  trusted_store |-> trusted_store]
           r == LightClient_handle(lc, Head(channel))
       IN  /\ pending_heights' = r.lc.pending_heights
           /\ lc_pending_states' = r.lc.pending_states
           /\ verified_states' = r.lc.verified_states
           /\ trusted_store' = r.lc.trusted_store
           /\ Scheduler_route(r.res)
    /\ UNCHANGED <<pending_states, caller_trusted, requests, fetches, answers,
                   rounds, accepted>>
    /\ UNCHANGED <<opsVars, innerVars>>

VerifierStep ==
    /\ Receives("Verifier")
    /\ LET e == Head(channel)
           r == Verifier_handle(pending_states, e)
       IN  /\ pending_states' = r.pending_states
           /\ Scheduler_route(r.res)
           /\ fetches' = IF r.res.ok /\ r.res.val.tag = "StateNeeded"
                         THEN Append(fetches, r.res.val.height)
                         ELSE fetches
           /\ accepted' = IF r.res.ok /\ r.res.val.tag = "StateVerified"
                          THEN accepted \cup
                                 {<<pending_states[e.height].trusted_state,
                                    r.res.val.trusted_state>>}
                          ELSE accepted
           /\ rounds' = IF r.res.ok /\ r.res.val.tag = "VerificationNeeded"
                        THEN rounds + 1
                        ELSE rounds
    /\ UNCHANGED <<caller_trusted, clientVars, requests, answers>>
    /\ UNCHANGED <<opsVars, innerVars>>

RequesterStep ==
    /\ Receives("Requester")
    /\ \E answer \in NodeAnswers \cup {RpcFailure} :
          LET res == Requester_handle(Head(channel).height, answer)
          IN  /\ Scheduler_route(res)
              /\ answers' = IF res.ok THEN Append(answers, res.val)
                            ELSE answers
    /\ UNCHANGED <<pending_states, caller_trusted, clientVars, requests,
                   fetches, rounds, accepted>>
    /\ UNCHANGED <<opsVars, innerVars>>

\* run(): sender.send(next_event) blocks while the channel is full.
SchedulerSend ==
    /\ status = "running"
    /\ outgoing # NoEvent
    /\ Len(channel) < ChannelCap
    /\ channel' = Append(channel, outgoing)
    /\ outgoing' = NoEvent
    /\ UNCHANGED <<pending_states, lastOut, caller_trusted, clientVars,
                   status, requests, fetches, answers, rounds, accepted>>
    /\ UNCHANGED <<opsVars, innerVars>>

\* A caller sends a top-level request into the scheduler's channel.
ExternalRequests ==
    [to : {"LightClient"}, tag : {"VerifyAtHeight"},
     trusted_state : {caller_trusted}, untrusted_height : Heights,
     trust_threshold : TrustThresholds, trusting_period : Periods,
     now : {1}]

ExternalSend ==
    /\ Len(requests) < MaxExternal
    /\ Len(channel) < ChannelCap
    /\ \E e \in ExternalRequests :
          /\ channel' = Append(channel, e)
          /\ requests' = Append(requests, e)
    /\ UNCHANGED <<pending_states, lastOut, caller_trusted, clientVars,
                   status, outgoing, fetches, answers, rounds, accepted>>
    /\ UNCHANGED <<opsVars, innerVars>>

\* The sentinels of Input: run() breaks on Terminate, Tick is todo!(), and
\* NoOp falls through to handle(), whose last arm is unreachable!().
Sentinels == [to : {"Scheduler"}, tag : {"Terminate", "Tick", "NoOp"}]

SentinelStep ==
    /\ Receives("Scheduler")
    /\ status' = IF Head(channel).tag = "Terminate"
                 THEN "terminated"
                 ELSE "panicked"
    /\ UNCHANGED <<pending_states, lastOut, caller_trusted, clientVars,
                   outgoing, requests, fetches, answers, rounds, accepted>>
    /\ UNCHANGED <<opsVars, innerVars>>

\* A caller sends a sentinel into the scheduler's channel.
ExternalSentinel ==
    /\ status = "running"
    /\ Len(channel) < ChannelCap
    /\ \E e \in Sentinels : channel' = Append(channel, e)
    /\ UNCHANGED <<pending_states, lastOut, caller_trusted, clientVars,
                   schedulerVars>>
    /\ UNCHANGED <<opsVars, innerVars>>

Init ==
    /\ caller_trusted \in TrustedStates
    /\ InitComponents
    /\ ops_input = NoOperation
    /\ ops_result = NoOperation

Next ==
    \/ ExternalSend
    \/ LightClientStep
    \/ VerifierStep
    \/ RequesterStep
    \/ SchedulerSend
    \/ SentinelStep
    \/ ExternalSentinel

Spec == Init /\ [][Next]_vars

(***************************************************************************)
(* The verification condition as the specification states it, over         *)
(* (T, U, V, V', threshold, trusting period, now).                         *)
(***************************************************************************)
SufficientPower(commit, validators, threshold) ==
    /\ voting_power_in(commit, validators).ok
    /\ total_power_of(validators).ok
    /\ voting_power_in(commit, validators).val * threshold.denominator
         > total_power_of(validators).val * threshold.numerator

CondWithinTrustPeriod(T, period, now) ==
    T.header.bft_time < now /\ T.header.bft_time + period > now

CondBeforeHeight(T, U, V, Vn, period, now) ==
    /\ CondWithinTrustPeriod(T, period, now)
    /\ U.validators_hash = V.hash
    /\ U.header.next_validator_set_hash = Vn.hash
    /\ hash(U.header) = U.commit.header_hash
    /\ validate(U.commit, V).ok
    /\ U.header.bft_time >= T.header.bft_time

CondBeforeOverlap(T, U, V, Vn, period, now) ==
    /\ CondBeforeHeight(T, U, V, Vn, period, now)
    /\ U.header.height > T.header.height
    /\ ~(U.header.height = T.header.height /\ T.validators.hash # Vn.hash)

VerificationCondition(T, U, V, Vn, threshold, period, now) ==
    /\ CondBeforeOverlap(T, U, V, Vn, period, now)
    /\ SufficientPower(U.commit, T.validators, threshold)
    /\ SufficientPower(U.commit, V, threshold)

(***************************************************************************)
(* Steps of the Verifier, as seen from outside: the event at the head of   *)
(* the channel is handed to the Verifier and removed.                      *)
(***************************************************************************)
Handles(tag) ==
    /\ channel # <<>>
    /\ Head(channel).tag = tag
    /\ channel' = Tail(channel)

HandlesFetchedFor ==
    /\ Handles("FetchedState")
    /\ Head(channel).height \in DOMAIN pending_states

\* The first failure of the verification the Verifier runs for the fetched
\* state at the head of the channel.
HeadVerification ==
    LET e == Head(channel)
        P == pending_states[e.height]
    IN  verify_untrusted_state(P.trusted_state, e.untrusted_sh,
                               e.untrusted_vals, e.untrusted_next_vals,
                               P.trust_threshold, P.trusting_period, P.now)

\* C1: whenever the Verifier answers FetchedState{h, U, V, V'} with
\* StateVerified, the verification condition holds for the pending state's
\* trusted state, threshold, trusting period and now.
C1_VerifiedImpliesCondition ==
    [][(HandlesFetchedFor /\ lastOut'.ok /\ lastOut'.val.tag = "StateVerified")
        => LET e == Head(channel)
               P == pending_states[e.height]
           IN  VerificationCondition(P.trusted_state, e.untrusted_sh,
                                     e.untrusted_vals, e.untrusted_next_vals,
                                     P.trust_threshold, P.trusting_period,
                                     P.now)]_vars

\* C4: when the verification of a fetched state fails first at
\* has_sufficient_validators_overlap, the Verifier returns
\* VerificationNeeded{T, floor((T.height + U.height) / 2), ...} with the
\* pending threshold, trusting period and now.
C4_OverlapFailureBisects ==
    [][(HandlesFetchedFor /\ ~HeadVerification.ok /\ HeadVerification.at = 8)
        => LET e == Head(channel)
               P == pending_states[e.height]
           IN  lastOut' = Ok([tag |-> "VerificationNeeded",
                              trusted_state |-> P.trusted_state,
                              pivot_height |->
                                  (P.trusted_state.header.height
                                     + e.untrusted_sh.header.height) \div 2,
                              trust_threshold |-> P.trust_threshold,
                              trusting_period |-> P.trusting_period,
                              now |-> P.now])]_vars

\* C6: VerifyAtHeight proceeds (inserts the PendingState, returns
\* StateNeeded(h)) exactly when bft_time < now and bft_time + period > now;
\* otherwise it fails with NotWithinTrustingPeriod and changes nothing.
C6_TrustPeriodGate ==
    [][Handles("VerifyAtHeight")
        => LET e == Head(channel) IN
           IF /\ e.trusted_state.header.bft_time < e.now
              /\ e.trusted_state.header.bft_time + e.trusting_period > e.now
           THEN /\ lastOut' = Ok([tag |-> "StateNeeded",
                                  height |-> e.untrusted_height])
                /\ e.untrusted_height \in DOMAIN pending_states'
                /\ pending_states'[e.untrusted_height].trusted_state
                      = e.trusted_state
           ELSE /\ ~lastOut'.ok
                /\ lastOut'.val.tag = "NotWithinTrustingPeriod"
                /\ pending_states' = pending_states]_vars

C6_Witness ==
    /\ ~lastOut.ok
    /\ lastOut.val.tag = "NotWithinTrustingPeriod"
    /\ pending_states # EmptyMap

\* C7: a fetched header whose height is not above the trusted height, with
\* every earlier predicate holding, fails with NonIncreasingHeight.
C7_NonIncreasingHeightFails ==
    [][(/\ HandlesFetchedFor
        /\ HeadVerification.at \notin 1..5
        /\ LET e == Head(channel)
               P == pending_states[e.height]
           IN  /\ CondBeforeHeight(P.trusted_state, e.untrusted_sh,
                                   e.untrusted_vals, e.untrusted_next_vals,
                                   P.trusting_period, P.now)
               /\ e.untrusted_sh.header.height
                     <= P.trusted_state.header.height)
        => lastOut' = Err([tag |-> "VerificationFailed",
                           error |-> "NonIncreasingHeight"])]_vars

\* C9: a FetchedState for a height with no PendingState fails with
\* NoMatchingPendingState(h) and leaves pending_states as it was.
C9_UnsolicitedFetchedState ==
    [][(Handles("FetchedState") /\ Head(channel).height \notin DOMAIN pending_states)
        => /\ lastOut' = Err([tag |-> "NoMatchingPendingState",
                              height |-> Head(channel).height])
           /\ pending_states' = pending_states]_vars

C9_Witness ==
    /\ ~lastOut.ok
    /\ lastOut.val.tag = "NoMatchingPendingState"
    /\ pending_states # EmptyMap

\* C10: after the Verifier has handled FetchedState{h, ...}, whatever it
\* returned, pending_states has no entry for h.
C10_PendingStateRemoved ==
    [][Handles("FetchedState")
        => Head(channel).height \notin DOMAIN pending_states']_vars

C10_Witness ==
    /\ lastOut.ok
    /\ lastOut.val.tag = "StateVerified"
    /\ pending_states # EmptyMap


(***************************************************************************)
(* Properties of a whole request run through client, verifier and          *)
(* requester (specification Spec).                                         *)
(***************************************************************************)
EmittedNewTrustedStates == lastOut.ok /\ lastOut.val.tag = "NewTrustedStates"

Quiescent == channel = <<>> /\ outgoing = NoEvent

DirectCheckHolds(req, ans) ==
    /\ ans.signed_header.header.height = req.untrusted_height
    /\ VerificationCondition(req.trusted_state, ans.signed_header,
                             ans.validator_set, ans.next_validator_set,
                             req.trust_threshold, req.trusting_period, req.now)

OnlyOverlapFails(req, ans) ==
    /\ ans.signed_header.header.height = req.untrusted_height
    /\ CondBeforeOverlap(req.trusted_state, ans.signed_header,
                         ans.validator_set, ans.next_validator_set,
                         req.trusting_period, req.now)
    /\ ~SufficientPower(ans.signed_header.commit,
                        req.trusted_state.validators, req.trust_threshold)

Promoted(ans) ==
    [header |-> ans.signed_header.header, validators |-> ans.validator_set]

\* C2: when one request VerifyAtHeight{T, H} has run to its end and the state
\* fetched for H satisfies the whole verification condition against T, the
\* run fetched H only and ended with NewTrustedStates{H, [TS_H]}.
C2_ValidStateIsTrusted ==
    (/\ Len(requests) = 1
     /\ Len(answers) = 1
     /\ Quiescent
     /\ DirectCheckHolds(requests[1], answers[1]))
    => /\ fetches = <<requests[1].untrusted_height>>
       /\ lastOut = Ok([tag |-> "NewTrustedStates",
                        trusted_height |-> requests[1].untrusted_height,
                        trusted_states |-> <<Promoted(answers[1])>>])

PivotOf(req) ==
    (req.trusted_state.header.height + req.untrusted_height) \div 2

\* C5: when one request from T to H has run to its end with every fetch
\* answered, the state fetched for H fails against T only for insufficient
\* validators overlap, the state fetched for the pivot p satisfies the
\* verification condition against T, and H satisfies it against TS_p, then
\* exactly StateNeeded(H) and StateNeeded(p) were issued, in that order, and
\* the run ended with NewTrustedStates{H, [TS_p, TS_H]}.
C5_OneBisection ==
    (/\ Len(requests) = 1
     /\ Len(answers) >= 1
     /\ Len(answers) = Len(fetches)
     /\ Quiescent
     /\ status = "panicked"
     /\ OnlyOverlapFails(requests[1], answers[1])
     /\ requests[1].trusted_state.header.height < PivotOf(requests[1])
     /\ PivotOf(requests[1]) < requests[1].untrusted_height
     /\ Len(answers) >= 2 =>
          /\ DirectCheckHolds(
                [requests[1] EXCEPT !.untrusted_height = PivotOf(requests[1])],
                answers[2])
          /\ DirectCheckHolds(
                [requests[1] EXCEPT !.trusted_state = Promoted(answers[2])],
                answers[1]))
    => /\ fetches = <<requests[1].untrusted_height, PivotOf(requests[1])>>
       /\ lastOut = Ok([tag |-> "NewTrustedStates",
                        trusted_height |-> requests[1].untrusted_height,
                        trusted_states |->
                            <<Promoted(answers[2]), Promoted(answers[1])>>])

(***************************************************************************)
(* The order of the combined predicate (specification SpecVerifier).       *)
(***************************************************************************)
\* The failure kind of the first part, in the listed order, that the fetched
\* state violates, computed part by part from the code's own conditions.
FirstViolatedPart(T, U, V, Vn, threshold) ==
    IF ~_validator_sets_match(U, V) THEN "InvalidValidatorSet"
    ELSE IF ~_next_validators_match(U, Vn) THEN "InvalidNextValidatorSet"
    ELSE IF ~_header_matches_commit(U.header, U.commit)
         THEN "InvalidCommitValue"
    ELSE IF ~_valid_commit(U.commit, U.validators)
         THEN "ImplementationSpecific"
    ELSE IF ~_is_monotonic_bft_time(U.header, T.header)
         THEN "NonMonotonicBftTime"
    ELSE IF ~_is_monotonic_height(T.header, U.header)
         THEN "NonIncreasingHeight"
    ELSE IF _invalid_next_validator_set(T, U, Vn)
         THEN "InvalidNextValidatorSet"
    ELSE IF ~_has_sufficient_validators_overlap(U.commit, T.validators,
                                                threshold)
         THEN "InsufficientValidatorsOverlap"
    ELSE IF ~_has_sufficient_signers_overlap(U.commit, V, threshold)
         THEN "InvalidCommit"
    ELSE "none"

RECURSIVE CeilLog2(_)
CeilLog2(g) == IF g <= 1 THEN 0 ELSE 1 + CeilLog2((g + 1) \div 2)

Gap(req) == req.untrusted_height - req.trusted_state.header.height

SpecFair ==
    /\ Spec
    /\ WF_vars(LightClientStep)
    /\ WF_vars(VerifierStep)
    /\ WF_vars(RequesterStep)
    /\ WF_vars(SchedulerSend)
    /\ WF_vars(SentinelStep)

\* The loop was stopped by a sentinel instead of by the end of a request.
StoppedBySentinel ==
    /\ status # "running"
    /\ lastOut.ok
    /\ lastOut.val.tag # "NewTrustedStates"

RequestEnded ==
    \/ /\ EmittedNewTrustedStates
       /\ pending_heights = <<>>
       /\ \E i \in 1..Len(requests) :
              requests[i].untrusted_height = lastOut.val.trusted_height
    \/ ~lastOut.ok
    \/ StoppedBySentinel

\* C14: once a VerifyAtHeight has been submitted, and with a requester that
\* answers every FetchState, the run eventually reaches NewTrustedStates
\* for a requested height with an empty stack of pending heights, or an
\* error; it does not go on (or stand still) forever.
C14_RequestTerminates == (requests # <<>>) ~> RequestEnded

(***************************************************************************)
(* Determinism.  Every handler is an operator of the component's state and *)
(* its input (no handler reads a clock: `now` travels in the events), so a *)
(* run is a function of the state it starts in and of what it is given.    *)
(***************************************************************************)
\* What the client and the verifier hold that a handler reads; trusted_store
\* is written by the client and read by no handler.
AsConstructed ==
    /\ pending_heights = <<>>
    /\ lc_pending_states = EmptyMap
    /\ verified_states = <<>>
    /\ pending_states = EmptyMap

FeedsBack == status = "running" /\ outgoing # NoEvent /\ outgoing' = NoEvent

\* C16: an event produced by one component for the next is the next event
\* the scheduler receives; nothing that callers have put into the channel
\* is handled before it, so the steps of two requests do not interleave.
C16_FeedbackBeforeExternalInput ==
    [][FeedsBack => Head(channel') = outgoing]_vars

(***************************************************************************)
(* Failure of a request (specification Spec).                              *)
(***************************************************************************)
\* A handler has returned an error; the scheduler's handle() stops there.
RequestFailed == status = "panicked" /\ ~lastOut.ok

\* C17: when a request has failed, the client holds none of the states
\* verified before the failure, so that no later NewTrustedStates can
\* contain them.
C17_FailureDiscardsVerifiedStates == RequestFailed => verified_states = <<>>

\* A component's handler returns an error in this step.
HandlerFails == lastOut.ok /\ ~lastOut'.ok

\* C18: when a handler returns an error, the scheduler goes on running and
\* its next event is an error event for the caller that carries the target
\* height and the trusted height of a submitted request.
C18_ErrorsReachTheCaller ==
    [][HandlerFails =>
        /\ status' = "running"
        /\ outgoing' # NoEvent
        /\ outgoing'.to = "External"
        /\ outgoing'.tag = "Error"
        /\ \E i \in 1..Len(requests) :
               /\ outgoing'.target_height = requests[i].untrusted_height
               /\ outgoing'.trusted_height =
                      requests[i].trusted_state.header.height]_vars

(***************************************************************************)
(* Routing (specification Spec).                                           *)
(***************************************************************************)
\* The routing table: inp is the input the table names for the output out,
\* with out's fields unchanged.
RoutedAsTabled(out, inp) ==
    CASE out.tag = "PerformVerification" ->
            /\ inp.to = "Verifier" /\ inp.tag = "VerifyAtHeight"
            /\ inp.trusted_state = out.trusted_state
            /\ inp.untrusted_height = out.untrusted_height
            /\ inp.trust_threshold = out.trust_threshold
            /\ inp.trusting_period = out.trusting_period
            /\ inp.now = out.now
      [] out.tag = "StateNeeded" ->
            /\ inp.to = "Requester" /\ inp.tag = "FetchState"
            /\ inp.height = out.height
      [] out.tag = "FetchedState" ->
            /\ inp.to = "Verifier" /\ inp.tag = "FetchedState"
            /\ inp.height = out.height
            /\ inp.untrusted_sh = out.signed_header
            /\ inp.untrusted_vals = out.validator_set
            /\ inp.untrusted_next_vals = out.next_validator_set
      [] out.tag = "StateVerified" ->
            /\ inp.to = "LightClient" /\ inp.tag = "NewTrustedState"
            /\ inp.trusted_state = out.trusted_state
      [] out.tag = "VerificationNeeded" ->
            /\ inp.to = "LightClient" /\ inp.tag = "VerifyAtHeight"
            /\ inp.trusted_state = out.trusted_state
            /\ inp.untrusted_height = out.pivot_height
            /\ inp.trust_threshold = out.trust_threshold
            /\ inp.trusting_period = out.trusting_period
            /\ inp.now = out.now
      [] out.tag = "NewTrustedStates" ->
            /\ inp.to = "External" /\ inp.tag = "NewTrustedStates"
            /\ inp.trusted_height = out.trusted_height
            /\ inp.trusted_states = out.trusted_states
      [] OTHER -> FALSE

\* A component handles the head of the channel and returns an output.
HandlerSucceeds ==
    /\ status = "running"
    /\ outgoing = NoEvent
    /\ channel # <<>>
    /\ Head(channel).to # "Scheduler"
    /\ channel' = Tail(channel)
    /\ lastOut'.ok

\* C19: every output of a component is routed to the input the routing table
\* names for it, fields unchanged; the client's NewTrustedStates goes to the
\* caller.
C19_OutputsRoutedAsTabled ==
    [][HandlerSucceeds =>
        /\ status' = "running"
        /\ outgoing' # NoEvent
        /\ RoutedAsTabled(lastOut'.val, outgoing')]_vars

\* The same for every output but NewTrustedStates: the arms of route_event
\* that are written route as the table says.
C19_WrittenArmsRoutedAsTabled ==
    [][(HandlerSucceeds /\ lastOut'.val.tag # "NewTrustedStates") =>
        /\ status' = "running"
        /\ outgoing' # NoEvent
        /\ RoutedAsTabled(lastOut'.val, outgoing')]_vars

(***************************************************************************)
(* Sentinels (specification Spec).                                         *)
(***************************************************************************)
\* The scheduler receives the sentinel `tag` in this step.
ReceivesSentinel(tag) ==
    /\ status = "running"
    /\ outgoing = NoEvent
    /\ channel # <<>>
    /\ Head(channel) = [to |-> "Scheduler", tag |-> tag]
    /\ channel' = Tail(channel)

\* What dispatching an event to a component can change.
dispatchVars ==
    <<pending_states, lastOut, clientVars, outgoing, fetches, answers,
      rounds, accepted>>

\* Terminate stops the loop, and once stopped the scheduler dispatches
\* nothing: whatever is or arrives in the channel is left there.
C20_TerminateStopsTheLoop ==
    [][/\ ReceivesSentinel("Terminate") => status' = "terminated"
       /\ status = "terminated" =>
              /\ status' = "terminated"
              /\ \/ channel' = channel
                 \/ \E e \in ExternalRequests : channel' = Append(channel, e)
              /\ UNCHANGED dispatchVars]_vars

\* C20: a NoOp is skipped (the loop goes on and no component has handled
\* anything), a Terminate stops the loop, and after it no event is
\* dispatched to a component.
C20_SentinelsSkipAndStop ==
    [][/\ ReceivesSentinel("NoOp") =>
              (status' = "running" /\ UNCHANGED dispatchVars)
       /\ ReceivesSentinel("Terminate") => status' = "terminated"
       /\ status = "terminated" =>
              (status' = "terminated" /\ UNCHANGED dispatchVars)]_vars

(***************************************************************************)
(* Fetches and pending states (specification Spec).                        *)
(***************************************************************************)
\* The requester's handler has returned an error for the fetch it was given.
FetchFailed == ~lastOut.ok /\ lastOut.val.tag = "RpcError"

\* The fetches are answered in the order they were asked for, each by one
\* FetchedState for the height that was asked for.
C21_FetchesAnsweredInOrder ==
    /\ Len(answers) <= Len(fetches)
    /\ \A i \in 1..Len(answers) : answers[i].height = fetches[i]

\* C21: every StateNeeded(h) is answered by one FetchedState for the same
\* height h or by an error, and when the fetch fails the Verifier holds no
\* PendingState for h any more.
C21_PendingStateLivesUntilResponse ==
    /\ Len(answers) <= Len(fetches)
    /\ \A i \in 1..Len(answers) : answers[i].height = fetches[i]
    /\ FetchFailed =>
           /\ Len(answers) < Len(fetches)
           /\ fetches[Len(answers) + 1] \notin DOMAIN pending_states

(***************************************************************************)
(* The operations behind the capabilities: LightImplOps                    *)
(* (tendermint/src/lite_impl/ops.rs) and ProdVotingPowerCalculator         *)
(* (light-client/src/operations/voting_power.rs).  A validator is          *)
(* [address, power].  A slot of a commit is Absent or a vote               *)
(* [flag, validator_address, vote_hash, sig_valid]: the flag is "Commit"   *)
(* (the vote carries a block id, vote_hash) or "Nil" (it carries none,     *)
(* vote_hash = NoHash); sig_valid says that the signature verifies under   *)
(* the key of the validator whose address the vote names, and it verifies  *)
(* under no other validator's key.                                         *)
(***************************************************************************)
MaxSlots == 2
MaxPower == 2

Addresses == 1..MaxSlots
\* vote::Power is a u64 and the sets come from a full node: nothing in the
\* code keeps a validator's power above zero.
Powers == 0..MaxPower
NoHash == 0
Absent == [flag |-> "Absent"]

Votes ==
    [flag : {"Commit"}, validator_address : Addresses, vote_hash : Hashes,
     sig_valid : BOOLEAN]
    \cup [flag : {"Nil"}, validator_address : Addresses, vote_hash : {NoHash},
          sig_valid : BOOLEAN]

Slots == {Absent} \cup Votes

SeqsUpTo(S, n) == UNION {[1..k -> S] : k \in 0..n}

\* validator::Set: the validators of a set have distinct addresses.
ValidatorLists ==
    {vs \in SeqsUpTo([address : Addresses, power : Powers], MaxSlots) :
        \A i, j \in 1..Len(vs) : vs[i].address = vs[j].address => i = j}

\* The call does not return: the thread panics.
OpsPanic == ErrVal("panic")

\* validator::Set::validator(address): the validator with that address.
HasValidator(vals, address) ==
    \E i \in 1..Len(vals) : vals[i].address = address

ValidatorAt(vals, address) ==
    vals[CHOOSE i \in 1..Len(vals) : vals[i].address = address]

\* Signature verification of a vote under the key of validator val.
verify_signature(val, vote) ==
    vote.sig_valid /\ vote.validator_address = val.address

RECURSIVE SumPowers(_)
SumPowers(vals) ==
    IF vals = <<>> THEN 0 ELSE Head(vals).power + SumPowers(Tail(vals))

\* LightImplOps::validate: header_hash is signed_header.header_hash(), which
\* is commit.block_id.hash (lite_impl/signed_header.rs).
RECURSIVE validate_precommits(_, _, _)
validate_precommits(precommits, header_hash, vals) ==
    IF precommits = <<>> THEN OkVal("unit")
    ELSE LET precommit == Head(precommits) IN
         IF precommit = Absent
         THEN validate_precommits(Tail(precommits), header_hash, vals)
         ELSE IF precommit.vote_hash # NoHash
                 /\ precommit.vote_hash # header_hash
         THEN ErrVal("ImplementationSpecific")
         ELSE IF ~HasValidator(vals, precommit.validator_address)
         THEN ErrVal("FaultyFullNode")
         ELSE validate_precommits(Tail(precommits), header_hash, vals)

\* A variant that does not look the signer up in the validator set; C22
\* rejects it.
LightImplOps_validate_NoSignerCheck(precommits, header_hash, vals) ==
    IF Len(precommits) # Len(vals)
    THEN ErrVal("ImplementationSpecific")
    ELSE IF \E i \in 1..Len(precommits) :
                /\ precommits[i] # Absent
                /\ precommits[i].vote_hash # NoHash
                /\ precommits[i].vote_hash # header_hash
    THEN ErrVal("ImplementationSpecific")
    ELSE OkVal("unit")

LightImplOps_validate(precommits, header_hash, vals) ==
    IF Len(precommits) # Len(vals)
    THEN ErrVal("ImplementationSpecific")
    ELSE validate_precommits(precommits, header_hash, vals)

\* ProdVotingPowerCalculator::voting_power_in from slot idx on, with the
\* tally so far.  validators[idx] is an index into a Vec: it panics when the
\* commit has more slots than the set has validators.
RECURSIVE prod_tally(_, _, _, _, _)
prod_tally(signatures, validators, voting_power_needed, idx, tallied_voting_power) ==
    IF idx > Len(signatures) THEN OkVal(tallied_voting_power)
    ELSE LET signature == signatures[idx] IN
         IF signature = Absent
         THEN prod_tally(signatures, validators, voting_power_needed,
                         idx + 1, tallied_voting_power)
         ELSE IF idx > Len(validators) THEN OpsPanic
         ELSE LET val == validators[idx] IN
              IF ~verify_signature(val, signature)
              THEN ErrVal("ImplementationSpecific")
              ELSE LET tallied == IF signature.flag = "Commit"
                                  THEN tallied_voting_power + val.power
                                  ELSE tallied_voting_power
                   IN  IF tallied >= voting_power_needed
                       THEN OkVal(tallied)
                       ELSE prod_tally(signatures, validators,
                                       voting_power_needed, idx + 1, tallied)

ProdVotingPowerCalculator_total_power_of(validators) == SumPowers(validators)

ProdVotingPowerCalculator_voting_power_in(signatures, validators) ==
    LET voting_power_needed ==
            (ProdVotingPowerCalculator_total_power_of(validators) * 2) \div 3
    IN  prod_tally(signatures, validators, voting_power_needed, 1, 0)

\* LightImplOps::voting_power_in: the votes are looked up by address, a vote
\* of an unknown validator is skipped, and every verified vote is tallied.
RECURSIVE LightImplOps_voting_power_in(_, _)
LightImplOps_voting_power_in(votes, validators) ==
    IF votes = <<>> THEN OkVal(0)
    ELSE LET vote == Head(votes)
             rest == LightImplOps_voting_power_in(Tail(votes), validators)
         IN  IF vote = Absent \/ ~HasValidator(validators, vote.validator_address)
             THEN rest
             ELSE LET val == ValidatorAt(validators, vote.validator_address) IN
                  IF ~verify_signature(val, vote)
                  THEN ErrVal("ImplementationSpecific")
                  ELSE IF rest.ok THEN OkVal(rest.val + val.power)
                  ELSE rest

(***************************************************************************)
(* The comparison of _has_sufficient_voting_power on machine integers.     *)
(* The code multiplies u64 values; the model keeps the arithmetic and      *)
(* scales the width down to WordBits bits.  An overflowing multiplication  *)
(* panics in a build with overflow checks and wraps in a build without.    *)
(***************************************************************************)
WordBits == 3
WordSize == 2 ^ WordBits
Words == 0..(WordSize - 1)
Builds == {"overflow-checks", "wrapping"}

checked_mul(a, b, build) ==
    IF a * b < WordSize THEN OkVal(a * b)
    ELSE IF build = "overflow-checks" THEN OpsPanic
    ELSE OkVal((a * b) % WordSize)

\* voting_power * trust_threshold.denominator
\*     > total_power * trust_threshold.numerator
has_sufficient_voting_power_word(voting_power, total_power, trust_threshold, build) ==
    LET lhs == checked_mul(voting_power, trust_threshold.denominator, build)
        rhs == checked_mul(total_power, trust_threshold.numerator, build)
    IN  IF ~lhs.ok \/ ~rhs.ok THEN OpsPanic
        ELSE OkVal(lhs.val > rhs.val)

\* _has_sufficient_voting_power with the ProdVotingPowerCalculator for
\* calculator: an error of the calculator makes the predicate false, a panic
\* of the calculator ends the call.
has_sufficient_voting_power_prod(signatures, validators, trust_threshold) ==
    LET total_power == ProdVotingPowerCalculator_total_power_of(validators)
        voting_power ==
            ProdVotingPowerCalculator_voting_power_in(signatures, validators)
    IN  IF voting_power.ok
        THEN OkVal(voting_power.val * trust_threshold.denominator
                     > total_power * trust_threshold.numerator)
        ELSE IF voting_power.val = "panic" THEN OpsPanic
        ELSE OkVal(FALSE)

\* The error to_assert gives each of the two overlap predicates.
OverlapPredicates ==
    {[name |-> "has_sufficient_validators_overlap",
      err |-> "InsufficientValidatorsOverlap"],
     [name |-> "has_sufficient_signers_overlap", err |-> "InvalidCommit"]}

\* A variant of the Verifier's match that asks for a bisection whenever an
\* overlap predicate fails; C35 rejects it.
perform_verification_match_BisectsOnOverlap(result) ==
    IF result.ok THEN Ok([tag |-> "StateVerified"])
    ELSE IF result.err \in {"InsufficientVotingPower",
                            "InsufficientValidatorsOverlap", "InvalidCommit"}
    THEN Ok([tag |-> "VerificationNeeded"])
    ELSE Err([tag |-> "VerificationFailed", error |-> result.err])

\* The match of Verifier::perform_verification on the result of the
\* predicate, the payloads of the events left out.
perform_verification_match(result) ==
    IF result.ok THEN Ok([tag |-> "StateVerified"])
    ELSE IF result.err = "InsufficientVotingPower"
    THEN Ok([tag |-> "VerificationNeeded"])
    ELSE Err([tag |-> "VerificationFailed", error |-> result.err])

\* The Verifier's answer when the overlap predicate p is the part of the
\* verification that is left to decide.
verify_overlap(p, signatures, validators, trust_threshold) ==
    LET holds == has_sufficient_voting_power_prod(signatures, validators,
                                                  trust_threshold)
    IN  IF ~holds.ok THEN OpsPanic
        ELSE perform_verification_match(
                 pred_assert(Leaf(p.name, holds.val, p.err, 2)))

\* The hand-written sequential verify of tendermint/src/lite/predicates.rs:
\* Ok(()) or the error of the first `return Err`, with the position of the
\* check that returned.  The predicates of that file have the bodies of the
\* pred crate's functions of the same name.
verify(trusted_state, untrusted_sh, untrusted_vals, untrusted_next_vals, trust_level) ==
    LET Failed(err, at) == [ok |-> FALSE, err |-> err, at |-> at] IN
    IF ~_validator_sets_match(untrusted_sh, untrusted_vals)
    THEN Failed("InvalidValidatorSet", 1)
    ELSE IF ~_next_validators_match(untrusted_sh, untrusted_next_vals)
    THEN Failed("InvalidNextValidatorSet", 2)
    ELSE IF ~_header_matches_commit(untrusted_sh.header, untrusted_sh.commit)
    THEN Failed("InvalidCommitValue", 3)
    ELSE IF ~_valid_commit(untrusted_sh.commit, untrusted_sh.validators)
    THEN Failed("ImplementationSpecific", 4)
    ELSE IF ~_is_monotonic_bft_time(untrusted_sh.header, trusted_state.header)
    THEN Failed("NonMonotonicBftTime", 5)
    ELSE IF ~_is_monotonic_height(trusted_state.header, untrusted_sh.header)
    THEN Failed("NonIncreasingHeight", 6)
    ELSE IF ~_invalid_next_validator_set(trusted_state, untrusted_sh,
                                         untrusted_next_vals)
    THEN Failed("InvalidNextValidatorSet", 7)
    ELSE IF ~_has_sufficient_validators_overlap(untrusted_sh.commit,
                 trusted_state.validators, trust_level)
    THEN Failed("InsufficientVotingPower", 8)
    ELSE IF ~_has_sufficient_signers_overlap(untrusted_sh.commit,
                 untrusted_vals, trust_level)
    THEN Failed("InvalidCommit", 9)
    ELSE [ok |-> TRUE, err |-> "none", at |-> 0]

\* The composed verify_pred of pred/src/light_client.rs on the same
\* arguments, asserted.
verify_pred_assert(trusted_state, untrusted_sh, untrusted_vals, untrusted_next_vals, trust_threshold) ==
    pred_assert(verify_pred(
        validator_sets_match(untrusted_sh, untrusted_vals),
        next_validators_match(untrusted_sh, untrusted_next_vals),
        header_matches_commit(untrusted_sh.header, untrusted_sh.commit),
        valid_commit(untrusted_sh.commit, untrusted_sh.validators),
        is_monotonic_bft_time(untrusted_sh.header, trusted_state.header),
        is_monotonic_height(trusted_state.header, untrusted_sh.header),
        valid_next_validator_set(trusted_state, untrusted_sh,
                                 untrusted_next_vals),
        has_sufficient_validators_overlap(untrusted_sh.commit,
            trusted_state.validators, trust_threshold),
        has_sufficient_signers_overlap(untrusted_sh.commit, untrusted_vals,
                                       trust_threshold)))

\* u64::checked_add: None when the sum does not fit the word, in every build.
checked_add(a, b) ==
    IF a + b < WordSize THEN OkVal(a + b) ELSE ErrVal("None")

\* A variant of the pivot computed with wrapping addition; C31 rejects it.
compute_pivot_height_word_Wrapping(trusted_h, untrusted_h) ==
    OkVal(((trusted_h + untrusted_h) % WordSize) \div 2)

\* Verifier::compute_pivot_height on heights of the word's width:
\* trusted_h.checked_add(untrusted_h).expect("height overflow") / 2
compute_pivot_height_word(trusted_h, untrusted_h) ==
    LET sum == checked_add(trusted_h, untrusted_h)
    IN  IF sum.ok THEN OkVal(sum.val \div 2) ELSE OpsPanic

(***************************************************************************)
(* Specification SpecOps: the operations are functions of their arguments. *)
(* Init draws the arguments of one call and the actions make the call.     *)
(***************************************************************************)
ValidateInputs ==
    [op : {"validate"}, header_hash : Hashes,
     precommits : SeqsUpTo(Slots, MaxSlots), vals : ValidatorLists]

VotingPowerInputs ==
    [op : {"voting_power_in"}, signatures : SeqsUpTo(Slots, MaxSlots),
     validators : ValidatorLists]

ThresholdInputs ==
    [op : {"has_sufficient_voting_power"}, voting_power : Words,
     total_power : Words,
     trust_threshold : [numerator : Words, denominator : Words]]

PivotInputs ==
    [op : {"compute_pivot_height"}, trusted_h : Words, untrusted_h : Words]

DefaultTrustThreshold == [numerator |-> 1, denominator |-> 3]

OverlapInputs ==
    [op : {"verify_overlap"}, predicate : OverlapPredicates,
     signatures : SeqsUpTo(Slots, MaxSlots), validators : ValidatorLists]

VerifyInputs ==
    [op : {"verify"}, trusted_state : TrustedStates,
     untrusted_sh : SignedHeaders, untrusted_vals : ValidatorSets,
     untrusted_next_vals : ValidatorSets]

InitOps ==
    /\ caller_trusted = CHOOSE t \in TrustedStates : TRUE
    /\ InitComponents
    /\ ops_input \in ValidateInputs \cup VotingPowerInputs \cup ThresholdInputs
                        \cup PivotInputs \cup OverlapInputs
                        \cup VerifyInputs
    /\ ops_result = NoOperation

Returns(op, res) ==
    /\ ops_result = NoOperation
    /\ ops_result' = [op |-> op, res |-> res]
    /\ UNCHANGED <<verifierVars, clientVars, schedulerVars, ops_input,
                   innerVars>>

CallValidate ==
    /\ ops_input.op = "validate"
    /\ Returns("LightImplOps::validate",
               LightImplOps_validate(ops_input.precommits,
                                     ops_input.header_hash, ops_input.vals))

CallProdVotingPowerIn ==
    /\ ops_input.op = "voting_power_in"
    /\ Returns("ProdVotingPowerCalculator::voting_power_in",
               ProdVotingPowerCalculator_voting_power_in(
                   ops_input.signatures, ops_input.validators))

CallLightImplVotingPowerIn ==
    /\ ops_input.op = "voting_power_in"
    /\ Returns("LightImplOps::voting_power_in",
               LightImplOps_voting_power_in(ops_input.signatures,
                                            ops_input.validators))

CallHasSufficientVotingPower ==
    /\ ops_input.op = "has_sufficient_voting_power"
    /\ \E build \in Builds :
          Returns("has_sufficient_voting_power",
                  has_sufficient_voting_power_word(
                      ops_input.voting_power, ops_input.total_power,
                      ops_input.trust_threshold, build))

CallComputePivotHeight ==
    /\ ops_input.op = "compute_pivot_height"
    /\ Returns("compute_pivot_height",
               compute_pivot_height_word(ops_input.trusted_h,
                                         ops_input.untrusted_h))

CallVerifyOverlap ==
    /\ ops_input.op = "verify_overlap"
    /\ Returns("verify_overlap",
               verify_overlap(ops_input.predicate, ops_input.signatures,
                              ops_input.validators, DefaultTrustThreshold))

\* Both verifications are run on the same arguments.
CallVerify ==
    /\ ops_input.op = "verify"
    /\ Returns("verify",
               OkVal([sequential |->
                         verify(ops_input.trusted_state,
                                ops_input.untrusted_sh,
                                ops_input.untrusted_vals,
                                ops_input.untrusted_next_vals,
                                DefaultTrustThreshold),
                      composed |->
                         verify_pred_assert(ops_input.trusted_state,
                                ops_input.untrusted_sh,
                                ops_input.untrusted_vals,
                                ops_input.untrusted_next_vals,
                                DefaultTrustThreshold)]))

NextOps ==
    \/ CallValidate
    \/ CallProdVotingPowerIn
    \/ CallLightImplVotingPowerIn
    \/ CallHasSufficientVotingPower
    \/ CallComputePivotHeight
    \/ CallVerifyOverlap
    \/ CallVerify

SpecOps == InitOps /\ [][NextOps]_vars

(***************************************************************************)
(* Claims about the operations (specification SpecOps).                    *)
(***************************************************************************)
Returned(op) == ops_result # NoOperation /\ ops_result.op = op

SlotCountDiffers == Len(ops_input.precommits) # Len(ops_input.vals)

VoteForOtherBlock ==
    \E i \in 1..Len(ops_input.precommits) :
        LET slot == ops_input.precommits[i] IN
        /\ slot # Absent
        /\ slot.vote_hash # NoHash
        /\ slot.vote_hash # ops_input.header_hash

UnknownSigner ==
    \E i \in 1..Len(ops_input.precommits) :
        LET slot == ops_input.precommits[i] IN
        /\ slot # Absent
        /\ \A j \in 1..Len(ops_input.vals) :
               ops_input.vals[j].address # slot.validator_address

\* C22: validate fails exactly when (a) the commit has another number of
\* slots than the set has validators, or (b) a non-absent slot votes for a
\* block hash other than the header hash of the signed header, or (c) a
\* non-absent slot is signed by an address that is not in the validator
\* set; otherwise it succeeds.
C22_ValidateFailsExactlyWhen ==
    Returned("LightImplOps::validate") =>
        (ops_result.res.ok <=>
            ~(SlotCountDiffers \/ VoteForOtherBlock \/ UnknownSigner))

C22_Witness ==
    /\ Returned("LightImplOps::validate")
    /\ ~SlotCountDiffers
    /\ ~VoteForOtherBlock
    /\ UnknownSigner
    /\ ~ops_result.res.ok
    /\ ops_result.res.val = "FaultyFullNode"

\* The commit has one slot per validator of the set.
SlotPerValidator == Len(ops_input.signatures) = Len(ops_input.validators)

\* Slot i is not absent and its signature does not verify against the
\* validator at index i.
BadSignatureAt(i) ==
    /\ ops_input.signatures[i] # Absent
    /\ ~verify_signature(ops_input.validators[i], ops_input.signatures[i])

RECURSIVE CommitPowerUpTo(_)
CommitPowerUpTo(n) ==
    IF n = 0 THEN 0
    ELSE CommitPowerUpTo(n - 1)
            + IF ops_input.signatures[n] # Absent
                 /\ ops_input.signatures[n].flag = "Commit"
              THEN ops_input.validators[n].power
              ELSE 0

VotingPowerNeeded == (SumPowers(ops_input.validators) * 2) \div 3

\* C23: voting_power_in verifies every slot that is not absent against the
\* validator at the same index, and its result is the sum of the powers of
\* the validators at the Commit-flagged slots: absent slots are skipped and
\* Nil slots are verified but add nothing.
C23_TalliesCommitSlots ==
    (Returned("ProdVotingPowerCalculator::voting_power_in")
     /\ SlotPerValidator) =>
        IF \E i \in 1..Len(ops_input.signatures) : BadSignatureAt(i)
        THEN ~ops_result.res.ok
        ELSE /\ ops_result.res.ok
             /\ ops_result.res.val = CommitPowerUpTo(Len(ops_input.signatures))

\* The same for the calls that do not reach two thirds of the total power:
\* an error is the error of a slot whose signature does not verify, and a
\* tally below the stop is the sum over all Commit-flagged slots.
C23_TalliesCommitSlotsBelowTheStop ==
    (Returned("ProdVotingPowerCalculator::voting_power_in")
     /\ SlotPerValidator) =>
        /\ ~ops_result.res.ok =>
               /\ ops_result.res.val = "ImplementationSpecific"
               /\ \E i \in 1..Len(ops_input.signatures) : BadSignatureAt(i)
        /\ (ops_result.res.ok /\ ops_result.res.val < VotingPowerNeeded) =>
               /\ \A i \in 1..Len(ops_input.signatures) : ~BadSignatureAt(i)
               /\ ops_result.res.val
                      = CommitPowerUpTo(Len(ops_input.signatures))

\* C24: voting_power_in returns the error ImplementationSpecific whenever
\* the signature of some non-absent slot does not verify against the
\* validator at its index, wherever in the commit that slot is.
C24_BadSignatureAnywhereFails ==
    (/\ Returned("ProdVotingPowerCalculator::voting_power_in")
     /\ SlotPerValidator
     /\ \E i \in 1..Len(ops_input.signatures) : BadSignatureAt(i)) =>
        /\ ~ops_result.res.ok
        /\ ops_result.res.val = "ImplementationSpecific"

\* The same for a bad signature in the first non-absent slot, which is
\* verified before the loop can stop.
C24_BadSignatureInFirstVoteFails ==
    (/\ Returned("ProdVotingPowerCalculator::voting_power_in")
     /\ SlotPerValidator
     /\ \E i \in 1..Len(ops_input.signatures) :
            /\ BadSignatureAt(i)
            /\ \A j \in 1..(i - 1) : ops_input.signatures[j] = Absent) =>
        /\ ~ops_result.res.ok
        /\ ops_result.res.val = "ImplementationSpecific"

\* The comparison over the mathematical integers.
ExactComparison ==
    ops_input.voting_power * ops_input.trust_threshold.denominator
        > ops_input.total_power * ops_input.trust_threshold.numerator

NoProductOverflows ==
    /\ ops_input.voting_power * ops_input.trust_threshold.denominator
           < WordSize
    /\ ops_input.total_power * ops_input.trust_threshold.numerator < WordSize

\* C25: the overlap predicate holds exactly when power * denominator >
\* total * numerator over the mathematical integers (equality fails), for
\* every machine-word value of the four numbers: no overflow of a product
\* distorts the comparison.
C25_ComparisonIsExact ==
    Returned("has_sufficient_voting_power") =>
        /\ ops_result.res.ok
        /\ ops_result.res.val = ExactComparison

\* The same for the values whose products fit the machine word.
C25_ComparisonIsExactWithoutOverflow ==
    (Returned("has_sufficient_voting_power") /\ NoProductOverflows) =>
        /\ ops_result.res.ok
        /\ ops_result.res.val = ExactComparison

(***************************************************************************)
(* The promoted state (specification SpecVerifier).                        *)
(***************************************************************************)
\* The Verifier answers the FetchedState at the head of the channel with
\* StateVerified.
VerifiesFetched ==
    /\ HandlesFetchedFor
    /\ lastOut'.ok
    /\ lastOut'.val.tag = "StateVerified"

C26_NextValidatorsEqualWhenVerified ==
    [][VerifiesFetched =>
        Head(channel).untrusted_next_vals = Head(channel).untrusted_vals]_vars

ClientHandlesNewTrustedState ==
    /\ status = "running"
    /\ outgoing = NoEvent
    /\ channel # <<>>
    /\ Head(channel).to = "LightClient"
    /\ Head(channel).tag = "NewTrustedState"
    /\ channel' = Tail(channel)

\* The top of pending_heights is the height of the new trusted state.
PopsItsHeight ==
    /\ pending_heights # <<>>
    /\ Head(pending_heights) = Head(channel).trusted_state.header.height
    /\ Head(pending_heights) \in DOMAIN lc_pending_states

\* C27: when NewTrustedState(TS) pops the height of TS and heights remain,
\* the client emits PerformVerification with trusted_state = TS,
\* untrusted_height = the new top, and the threshold, trusting period and
\* now stored for that new top; the new top stays on the stack.
C27_NextVerificationUsesContextOfNewTop ==
    [][(/\ ClientHandlesNewTrustedState
        /\ PopsItsHeight
        /\ Tail(pending_heights) # <<>>
        /\ Head(Tail(pending_heights)) # Head(pending_heights)
        /\ Head(Tail(pending_heights)) \in DOMAIN lc_pending_states) =>
            LET next_top == Head(Tail(pending_heights))
                stored == lc_pending_states[next_top]
            IN  /\ lastOut' =
                       Ok([tag |-> "PerformVerification",
                           trusted_state |-> Head(channel).trusted_state,
                           untrusted_height |-> next_top,
                           trust_threshold |-> stored.trust_threshold,
                           trusting_period |-> stored.trusting_period,
                           now |-> stored.now])
                /\ pending_heights' = Tail(pending_heights)]_vars

\* The same with the context the code takes: the one stored for the popped
\* height.
C27_NextVerificationUsesContextOfPopped ==
    [][(/\ ClientHandlesNewTrustedState
        /\ PopsItsHeight
        /\ Tail(pending_heights) # <<>>) =>
            LET next_top == Head(Tail(pending_heights))
                stored == lc_pending_states[Head(pending_heights)]
            IN  /\ lastOut' =
                       Ok([tag |-> "PerformVerification",
                           trusted_state |-> Head(channel).trusted_state,
                           untrusted_height |-> next_top,
                           trust_threshold |-> stored.trust_threshold,
                           trusting_period |-> stored.trusting_period,
                           now |-> stored.now])
                /\ pending_heights' = Tail(pending_heights)]_vars

\* C28: when NewTrustedState(TS) pops the last pending height, the client
\* emits NewTrustedStates with trusted_height = TS.header.height and the
\* states verified so far followed by TS, in the order they became trusted;
\* afterwards pending_heights, the pending contexts and verified_states are
\* empty.
C28_LastHeightEmitsAllVerifiedStates ==
    [][(/\ ClientHandlesNewTrustedState
        /\ PopsItsHeight
        /\ Tail(pending_heights) = <<>>) =>
            /\ lastOut' =
                   Ok([tag |-> "NewTrustedStates",
                       trusted_height |->
                           Head(channel).trusted_state.header.height,
                       trusted_states |->
                           Append(verified_states,
                                  Head(channel).trusted_state)])
            /\ pending_heights' = <<>>
            /\ lc_pending_states' = EmptyMap
            /\ verified_states' = <<>>]_vars

C28_Witness ==
    /\ EmittedNewTrustedStates
    /\ Len(lastOut.val.trusted_states) = 2
    /\ lastOut.val.trusted_states[1] # lastOut.val.trusted_states[2]
    /\ lastOut.val.trusted_states[2].header.height = lastOut.val.trusted_height
    /\ pending_heights = <<>>
    /\ verified_states = <<>>

(***************************************************************************)
(* SpecClient: the LightClient on its own.  A caller hands it any sequence *)
(* of VerifyAtHeight and NewTrustedState events, one at a time: channel    *)
(* holds the event that has been sent and not yet handled.                 *)
(***************************************************************************)
MaxPending == 2

\* The client reads nothing of a trusted state but its header's height: the
\* states it is handed differ in their height only.
StatesAtAnyHeight(T) == {[T EXCEPT !.header.height = h] : h \in Heights}

\* The requests it is handed differ in their height and in their time.
ClientVerifyAtHeightEvents(T) ==
    {e \in VerifyAtHeightEvents(T) : e.trusting_period = 1}

InitClient ==
    /\ caller_trusted = CHOOSE t \in TrustedStates : TRUE
    /\ InitComponents
    /\ ops_input = NoOperation
    /\ ops_result = NoOperation

SendClientVerifyAtHeight ==
    /\ channel = <<>>
    /\ Len(pending_heights) < MaxPending
    /\ \E e \in ClientVerifyAtHeightEvents(caller_trusted) : channel' = <<e>>
    /\ lastOut' = Ok(NoEvent)
    /\ UNCHANGED <<caller_trusted, pending_states, clientVars, schedulerVars,
                   opsVars, innerVars>>

\* verified_states is not cleared by a failure and so has no bound in the
\* code: the caller stops handing over states once it holds MaxPending.
SendNewTrustedState ==
    /\ channel = <<>>
    /\ Len(verified_states) < MaxPending
    /\ \E ts \in StatesAtAnyHeight(caller_trusted) :
          channel' = <<[tag |-> "NewTrustedState", trusted_state |-> ts]>>
    /\ lastOut' = Ok(NoEvent)
    /\ UNCHANGED <<caller_trusted, pending_states, clientVars, schedulerVars,
                   opsVars, innerVars>>

ClientHandle ==
    /\ channel # <<>>
    /\ LET lc == [pending_heights |-> pending_heights,
                  pending_states |-> lc_pending_states,
                  verified_states |-> verified_states,
                  trusted_store |-> trusted_store]
           r == LightClient_handle(lc, Head(channel))
       IN  /\ pending_heights' = r.lc.pending_heights
           /\ lc_pending_states' = r.lc.pending_states
           /\ verified_states' = r.lc.verified_states
           /\ trusted_store' = r.lc.trusted_store
           /\ lastOut' = r.res
    /\ channel' = Tail(channel)
    /\ UNCHANGED <<caller_trusted, pending_states, schedulerVars, opsVars,
                   innerVars>>

NextClient == SendClientVerifyAtHeight \/ SendNewTrustedState \/ ClientHandle

SpecClient == InitClient /\ [][NextClient]_vars


(***************************************************************************)
(* Claims about the LightClient on its own.                                *)
(***************************************************************************)
\* The client takes a NewTrustedState event off the channel and handles it.
ClientGetsNewTrustedState ==
    /\ channel # <<>>
    /\ Head(channel).tag = "NewTrustedState"
    /\ channel' = Tail(channel)

NewHeight == Head(channel).trusted_state.header.height

\* C29: a NewTrustedState(TS) that does not match the client's stack is
\* reported and not accepted.  If the top of pending_heights differs from
\* TS.header.height the client returns the error NextHeightMismatch with
\* expected = that top and got = TS.header.height; if pending_heights is
\* empty it returns AlreadyVerified(TS.header.height) as an Ok result.  In
\* both cases TS is neither written to trusted_store nor appended to
\* verified_states.
C29_MismatchIsReportedNotAccepted ==
    [][ClientGetsNewTrustedState =>
         /\ (pending_heights # <<>> /\ Head(pending_heights) # NewHeight) =>
               /\ lastOut' = Err([tag |-> "NextHeightMismatch",
                                  expected |-> Head(pending_heights),
                                  got |-> NewHeight])
               /\ verified_states' = verified_states
               /\ trusted_store' = trusted_store
         /\ pending_heights = <<>> =>
               /\ lastOut' = Ok([tag |-> "AlreadyVerified",
                                 height |-> NewHeight])
               /\ verified_states' = verified_states
               /\ trusted_store' = trusted_store
               /\ pending_heights' = <<>>]_vars

\* A state of the wrong height has been answered with NextHeightMismatch
\* whose two heights differ, while the client holds earlier verified states.
C29_Witness ==
    /\ ~lastOut.ok
    /\ lastOut.val.tag = "NextHeightMismatch"
    /\ lastOut.val.expected # lastOut.val.got
    /\ verified_states # <<>>

\* An unsolicited state has been answered with AlreadyVerified.
AnsweredAlreadyVerified ==
    /\ lastOut.ok
    /\ lastOut.val.tag = "AlreadyVerified"
    /\ lastOut.val.height > 0
    /\ pending_heights = <<>>


(***************************************************************************)
(* The trusted store (specification Spec).                                 *)
(***************************************************************************)
\* The states the client has collected after the step: the list it returns
\* in NewTrustedStates, or else verified_states.
CollectedAfterStep ==
    IF lastOut'.ok /\ lastOut'.val.tag = "NewTrustedStates"
    THEN lastOut'.val.trusted_states
    ELSE verified_states'

\* C30: every trusted state the client appends to verified_states (and so
\* every state it later returns in NewTrustedStates) is written to
\* trusted_store under its header height in the same step.
C30_AppendedStateIsStored ==
    [][(/\ ClientHandlesNewTrustedState
        /\ Len(CollectedAfterStep) = Len(verified_states) + 1) =>
            LET ts == CollectedAfterStep[Len(CollectedAfterStep)]
            IN  /\ ts = Head(channel).trusted_state
                /\ ts.header.height \in DOMAIN trusted_store'
                /\ trusted_store'[ts.header.height] = ts]_vars

\* The client holds a verified state that the store holds under its height,
\* the store having been empty at construction.
C30_Witness ==
    /\ verified_states # <<>>
    /\ LET ts == verified_states[Len(verified_states)]
       IN  /\ ts.header.height \in DOMAIN trusted_store
           /\ trusted_store[ts.header.height] = ts


(***************************************************************************)
(* The pivot on heights of the word's width (specification SpecOps).       *)
(***************************************************************************)
HeightSumOverflows == ops_input.trusted_h + ops_input.untrusted_h >= WordSize

\* C31: the pivot is computed with checked addition of the two heights.
\* When trusted_h + untrusted_h does not fit the word the computation stops
\* with a fatal error and returns no pivot, in particular not the
\* wrapped-around one; otherwise the pivot is the exact half of the sum.
C31_PivotOverflowIsFatal ==
    Returned("compute_pivot_height") =>
        IF HeightSumOverflows
        THEN ops_result.res = OpsPanic
        ELSE ops_result.res =
                 OkVal((ops_input.trusted_h + ops_input.untrusted_h) \div 2)

\* The pivot has been asked for two heights whose sum overflows and whose
\* wrapped sum would give a pivot below both.
C31_Witness ==
    /\ Returned("compute_pivot_height")
    /\ HeightSumOverflows
    /\ ops_input.trusted_h < ops_input.untrusted_h
    /\ ops_result.res = OpsPanic


(***************************************************************************)
(* The height of the promoted state (specification Spec).                  *)
(***************************************************************************)
\* The scheduler hands the FetchedState at the head of the channel to the
\* Verifier in this step and the Verifier answers StateVerified.
VerifierVerifiesFetched ==
    /\ status = "running"
    /\ outgoing = NoEvent
    /\ channel # <<>>
    /\ Head(channel).to = "Verifier"
    /\ Head(channel).tag = "FetchedState"
    /\ channel' = Tail(channel)
    /\ lastOut'.ok
    /\ lastOut'.val.tag = "StateVerified"

\* C32: a StateVerified(TS) emitted in response to FetchedState{h, U, ...}
\* has TS.header.height = h, the height that was requested.
C32_VerifiedStateHasRequestedHeight ==
    [][VerifierVerifiesFetched =>
        lastOut'.val.trusted_state.header.height = Head(channel).height]_vars

\* The same for fetched states whose header has the requested height: the
\* Verifier itself never compares the two.
C32_VerifiedStateHasHeightOfFetchedHeader ==
    [][VerifierVerifiesFetched =>
        lastOut'.val.trusted_state.header.height =
            Head(channel).untrusted_sh.header.height]_vars


(***************************************************************************)
(* The client's stack within one top-level request (specification Spec).   *)
(***************************************************************************)
OneTopLevelRequest == Len(requests) = 1

StackStrictlyIncreasing ==
    \A i \in 1..(Len(pending_heights) - 1) :
        pending_heights[i] < pending_heights[i + 1]

StackHeights == {pending_heights[i] : i \in 1..Len(pending_heights)}

\* The last handler failed with NoMatchingPendingState (the client's error
\* and the Verifier's carry the same name).
MissesPendingState ==
    /\ ~lastOut.ok
    /\ lastOut.val.tag = "NoMatchingPendingState"

\* C33: within one top-level request the client's pending_heights is
\* strictly increasing from top to bottom, the set of heights on the stack
\* equals the key set of the stored pending contexts, and the client's own
\* NoMatchingPendingState error does not occur.
C33_StackMatchesPendingContexts ==
    OneTopLevelRequest =>
        /\ StackStrictlyIncreasing
        /\ StackHeights = DOMAIN lc_pending_states
        /\ ~MissesPendingState

\* What holds within one top-level request: the stack never holds a height
\* twice, every height on it has a stored context, and the client never
\* misses one.
C33_StackHeightsHaveContexts ==
    OneTopLevelRequest =>
        /\ StackStrictlyIncreasing
        /\ StackHeights \subseteq DOMAIN lc_pending_states
        /\ ~MissesPendingState


(***************************************************************************)
(* The client's state after a rejected NewTrustedState (SpecClient).       *)
(***************************************************************************)
RejectsWithMismatch ==
    /\ ClientGetsNewTrustedState
    /\ ~lastOut'.ok
    /\ lastOut'.val.tag = "NextHeightMismatch"

ReportsAlreadyVerified ==
    /\ ClientGetsNewTrustedState
    /\ lastOut'.ok
    /\ lastOut'.val.tag = "AlreadyVerified"

\* C34: a NewTrustedState that the client rejects with NextHeightMismatch
\* or reports as AlreadyVerified leaves pending_heights, the pending
\* contexts, verified_states and the trusted store as they were.
C34_RejectedEventLeavesClientUnchanged ==
    [][(RejectsWithMismatch \/ ReportsAlreadyVerified) =>
        /\ pending_heights' = pending_heights
        /\ lc_pending_states' = lc_pending_states
        /\ verified_states' = verified_states
        /\ trusted_store' = trusted_store]_vars

\* What the code does: AlreadyVerified changes nothing; NextHeightMismatch
\* removes the top of pending_heights and changes nothing else.
C34_MismatchPopsTheStack ==
    [][/\ ReportsAlreadyVerified => UNCHANGED clientVars
       /\ RejectsWithMismatch =>
            /\ pending_heights' = Tail(pending_heights)
            /\ lc_pending_states' = lc_pending_states
            /\ verified_states' = verified_states
            /\ trusted_store' = trusted_store]_vars


(***************************************************************************)
(* A calculator error under an overlap predicate (specification SpecOps).  *)
(***************************************************************************)
\* voting_power_in returns an error for the arguments of the call.
CalculatorFails ==
    LET r == ProdVotingPowerCalculator_voting_power_in(ops_input.signatures,
                                                      ops_input.validators)
    IN  ~r.ok /\ r.val # "panic"

SlotsWithValidator ==
    IF Len(ops_input.signatures) < Len(ops_input.validators)
    THEN Len(ops_input.signatures)
    ELSE Len(ops_input.validators)

\* The sum of the powers of all Commit-flagged slots.
FullCommitPower == CommitPowerUpTo(SlotsWithValidator)

\* _has_sufficient_voting_power's comparison at the default threshold.
OverlapDecision(voting_power) ==
    voting_power * DefaultTrustThreshold.denominator
        > SumPowers(ops_input.validators) * DefaultTrustThreshold.numerator

\* C36: the early exit in voting_power_in changes no overlap decision at
\* the trust threshold 1/3.  For every commit and every validator set for
\* which voting_power_in returns a value, the overlap predicate computed
\* from that value equals the predicate computed from the full sum of the
\* powers of all Commit-flagged slots.
C36_EarlyExitKeepsTheDecision ==
    (/\ Returned("ProdVotingPowerCalculator::voting_power_in")
     /\ ops_result.res.ok) =>
        OverlapDecision(ops_result.res.val) = OverlapDecision(FullCommitPower)

\* The same for the validator sets whose stop is above zero, that is whose
\* total power is at least 2: there the early exit keeps the decision.
C36_EarlyExitKeepsTheDecisionAboveZeroStop ==
    (/\ Returned("ProdVotingPowerCalculator::voting_power_in")
     /\ ops_result.res.ok
     /\ VotingPowerNeeded > 0) =>
        OverlapDecision(ops_result.res.val) = OverlapDecision(FullCommitPower)

\* A commit of validly signed Commit slots, one per validator, for which
\* the value returned decides against the overlap and the full sum for it.
EarlyExitChangesTheDecision ==
    /\ Returned("ProdVotingPowerCalculator::voting_power_in")
    /\ ops_result.res.ok
    /\ SlotPerValidator
    /\ \A i \in 1..Len(ops_input.signatures) :
          /\ ops_input.signatures[i] # Absent
          /\ ops_input.signatures[i].flag = "Commit"
          /\ ~BadSignatureAt(i)
    /\ ~OverlapDecision(ops_result.res.val)
    /\ OverlapDecision(FullCommitPower)


(***************************************************************************)
(* Commits with more slots than validators (specification SpecOps).        *)
(***************************************************************************)
MoreSlotsThanValidators == Len(ops_input.signatures) > Len(ops_input.validators)

Panicked == ~ops_result.res.ok /\ ops_result.res.val = "panic"

\* A slot that is not absent and has no validator at its index.
SlotBeyondTheSet(i) ==
    /\ i > Len(ops_input.validators)
    /\ ops_input.signatures[i] # Absent

\* C37: voting_power_in never reads a validator at an index outside the
\* validator set: a commit with more signature slots than the set has
\* validators is rejected with an error and the call does not end in an
\* out-of-range access.
C37_LongCommitIsRejected ==
    (/\ Returned("ProdVotingPowerCalculator::voting_power_in")
     /\ MoreSlotsThanValidators) =>
        /\ ~ops_result.res.ok
        /\ ~Panicked

\* What the code does with such a commit: no error is raised for its
\* length.  The call panics on validators[idx] if it reaches a slot beyond
\* the set that is not absent, and it returns a tally or a signature error
\* if it does not reach one.
C37_LongCommitPanicsOrIsTallied ==
    (/\ Returned("ProdVotingPowerCalculator::voting_power_in")
     /\ MoreSlotsThanValidators) =>
        /\ Panicked =>
              \E i \in 1..Len(ops_input.signatures) : SlotBeyondTheSet(i)
        /\ (~ops_result.res.ok /\ ~Panicked) =>
              \E i \in 1..Len(ops_input.validators) : BadSignatureAt(i)
        /\ (\A i \in 1..Len(ops_input.signatures) : ~SlotBeyondTheSet(i)) =>
              ~Panicked


(***************************************************************************)
(* The scheduler's send into its own channel (specification SpecFair).     *)
(***************************************************************************)
\* run() holds a routed event that it has not yet sent.
SendPending == status = "running" /\ outgoing # NoEvent

\* run() is blocked in sender.send: the channel is full, and its only
\* receiver is run() itself.
BlockedOnOwnChannel == SendPending /\ Len(channel) = ChannelCap

\* C38: the scheduler never blocks forever when it feeds a component's
\* reply back into its own bounded channel: with an external producer
\* sending into the same channel, every pending send completes and the loop
\* gets to receive the next event.
C38_SendIntoOwnChannelCompletes == SendPending ~> ~SendPending

\* Once run() is blocked on its full channel it stays blocked: no step of
\* the program empties the channel.
C38_BlockedStaysBlocked ==
    [][BlockedOnOwnChannel => BlockedOnOwnChannel']_vars


(***************************************************************************)
(* InnerVerifier (light-spike/src/inner_verifier.rs): the single-slot      *)
(* verifier.  Each operation returns the new self.state and the event it   *)
(* emits; handle() has put Unknown into self.state before it calls them.   *)
(***************************************************************************)
NoOp == [tag |-> "NoOp"]

InnerVerifier_start_verification(trusted_state, untrusted_height, trust_threshold, trusting_period, now) ==
    [state |-> WaitingForUntrustedState(trusted_state, untrusted_height,
                   trust_threshold, trusting_period, now),
     res |-> Ok([tag |-> "FetchState", height |-> untrusted_height])]

InnerVerifier_init_verification(trusted_state, untrusted_height, trust_threshold, trusting_period, now) ==
    IF ~pred_eval(is_within_trust_period(trusted_state.header,
                                         trusting_period, now))
    THEN [state |-> Ready, res |-> Ok(NoOp)]
    ELSE InnerVerifier_start_verification(trusted_state, untrusted_height,
             trust_threshold, trusting_period, now)

InnerVerifier_perform_verification(trusted_state, untrusted_sh, untrusted_vals, untrusted_next_vals, trust_threshold, trusting_period, now) ==
    LET result == verify_untrusted_state(trusted_state, untrusted_sh,
                      untrusted_vals, untrusted_next_vals, trust_threshold,
                      trusting_period, now)
    IN  IF result.ok
        THEN [state |-> Unknown,
              res |-> Ok([tag |-> "VerifiedTrustedState",
                          trusted_state |->
                              [header |-> untrusted_sh.header,
                               validators |-> untrusted_vals]])]
        ELSE IF result.err = "InsufficientVotingPower"
        THEN [state |-> Unknown,
              res |-> Ok([tag |-> "BisectionNeeded",
                          trusted_state |-> trusted_state,
                          pivot_height |->
                              compute_pivot_height(trusted_state, untrusted_sh),
                          trust_threshold |-> trust_threshold,
                          trusting_period |-> trusting_period,
                          now |-> now])]
        ELSE [state |-> Ready, res |-> Ok(NoOp)]

\* The last arm of handle(): unreachable!() panics with Unknown in
\* self.state.
InnerVerifier_unreachable ==
    [state |-> Unknown, res |-> Err([tag |-> "Unreachable"])]

InnerVerifier_handle(s, event) ==
    IF s = Ready /\ event.tag = "VerifyAtHeight"
    THEN InnerVerifier_init_verification(event.trusted_state,
             event.untrusted_height, event.trust_threshold,
             event.trusting_period, event.now)
    ELSE IF s.tag = "WaitingForUntrustedState" /\ event.tag = "FetchedState"
    THEN IF s.untrusted_height # event.height
         THEN [state |-> Ready, res |-> Ok(NoOp)]
         ELSE InnerVerifier_perform_verification(s.trusted_state,
                  event.untrusted_sh, event.untrusted_vals,
                  event.untrusted_next_vals, s.trust_threshold,
                  s.trusting_period, s.now)
    ELSE InnerVerifier_unreachable

(***************************************************************************)
(* SpecInner: the InnerVerifier on its own.  A caller holding the trusted  *)
(* state caller_trusted hands it any sequence of events, one at a time,    *)
(* until the thread panics.                                                *)
(***************************************************************************)
InitInner ==
    /\ caller_trusted \in TrustedStates
    /\ InitComponents
    /\ ops_input = NoOperation
    /\ ops_result = NoOperation

SendInnerVerifyAtHeight ==
    /\ status = "running"
    /\ channel = <<>>
    /\ \E e \in VerifyAtHeightEvents(caller_trusted) : channel' = <<e>>
    /\ lastOut' = Ok(NoEvent)
    /\ UNCHANGED <<caller_trusted, pending_states, clientVars, schedulerVars,
                   opsVars, innerVars>>

SendInnerFetchedState ==
    /\ status = "running"
    /\ channel = <<>>
    /\ \E e \in FetchedStateEvents : channel' = <<e>>
    /\ lastOut' = Ok(NoEvent)
    /\ UNCHANGED <<caller_trusted, pending_states, clientVars, schedulerVars,
                   opsVars, innerVars>>

InnerHandle ==
    /\ status = "running"
    /\ channel # <<>>
    /\ LET r == InnerVerifier_handle(state, Head(channel)) IN
        /\ state' = r.state
        /\ lastOut' = r.res
        /\ status' = IF r.res.ok THEN "running" ELSE "panicked"
    /\ channel' = Tail(channel)
    /\ UNCHANGED <<caller_trusted, pending_states, clientVars, outgoing,
                   requests, fetches, answers, rounds, accepted, opsVars>>

NextInner == SendInnerVerifyAtHeight \/ SendInnerFetchedState \/ InnerHandle

SpecInner == InitInner /\ [][NextInner]_vars


(***************************************************************************)
(* The state of the InnerVerifier between events (specification SpecInner).*)
(***************************************************************************)
\* The InnerVerifier handles the event at the head of the channel and
\* returns.
InnerReturns ==
    /\ status = "running"
    /\ channel # <<>>
    /\ channel' = Tail(channel)
    /\ lastOut'.ok

\* The event ends a verification step: the state was verified, a bisection
\* is needed, or the step failed (verification failed, the fetched height
\* does not match, the trusted state is outside its trusting period).
EndsVerificationStep ==
    /\ InnerReturns
    /\ lastOut'.val.tag \in {"VerifiedTrustedState", "BisectionNeeded", "NoOp"}

\* C39: the InnerVerifier is back in Ready after every event that ends a
\* verification step, and it is never left in Unknown between events.
C39_ReadyAfterEveryVerificationStep ==
    [][/\ EndsVerificationStep => state' = Ready
       /\ InnerReturns => state' # Unknown]_vars

\* What the code does: a step that fails leaves Ready, a step that starts a
\* fetch leaves WaitingForUntrustedState, and a step that verifies the state
\* or asks for a bisection leaves the Unknown that handle() put there.
C39_VerifiedLeavesUnknown ==
    [][InnerReturns =>
        CASE lastOut'.val.tag = "NoOp" -> state' = Ready
          [] lastOut'.val.tag = "FetchState" ->
                state'.tag = "WaitingForUntrustedState"
          [] OTHER -> state' = Unknown]_vars

\* An event handed to the InnerVerifier while it is in Unknown reaches
\* unreachable!(): after a verified state the next VerifyAtHeight panics.
C39_EventInUnknownPanics ==
    [][(/\ status = "running"
        /\ channel # <<>>
        /\ channel' = Tail(channel)
        /\ state = Unknown) =>
            /\ status' = "panicked"
            /\ lastOut' = Err([tag |-> "Unreachable"])]_vars

\* A VerifyAtHeight is waiting for an InnerVerifier left in Unknown.
RequestMeetsUnknown ==
    /\ status = "running"
    /\ state = Unknown
    /\ channel # <<>>
    /\ Head(channel).tag = "VerifyAtHeight"


(***************************************************************************)
(* The sequential verify and the composed verify_pred (SpecOps).           *)
(***************************************************************************)
Sequential == ops_result.res.val.sequential
Composed == ops_result.res.val.composed

\* C40: the hand-written sequential verify and the composed verify_pred
\* accept exactly the same inputs, and when they reject they report the
\* failure of the same predicate.
C40_SequentialAndComposedAgree ==
    Returned("verify") =>
        /\ Sequential.ok = Composed.ok
        /\ ~Sequential.ok => Sequential.at = Composed.at

\* What holds: the two agree on every input that one of them rejects in its
\* first six checks, with the same predicate and the same error.
C40_AgreeUpToTheHeightCheck ==
    (Returned("verify")
     /\ (Sequential.at \in 1..6 \/ Composed.at \in 1..6)) =>
        /\ Sequential.at = Composed.at
        /\ Sequential.err = Composed.err

\* The sequential verify accepts no input at all: its sixth check asks for
\* a trusted height above the untrusted one and its seventh for equal
\* heights.
C40_SequentialAcceptsNothing == Returned("verify") => ~Sequential.ok

\* The composed verify_pred accepts an input.
ComposedAccepts == Returned("verify") /\ Composed.ok

====
